---- MODULE Spec2Model ----
(***************************************************************************)
(* Device Control Agent of device-go-agent: the MQTT command dispatcher    *)
(* (SubMessage / Control), the Deployment Engine (Deploy, InferenceDeploy, *)
(* Delete, InferenceDelete, the virtual-environment functions), the        *)
(* Application Registry (app.json: SaveAppInfo, DeleteAppInfo,             *)
(* CheckExistApp, GetAppsFromGroup), the reboot marker of the device       *)
(* configuration (Rebooting, RunBody) and the Configuration Patch Engine   *)
(* (ToNumber, changeInterface, JsonChange).                                *)
(*                                                                         *)
(* Spec      : the agent process handling commands one after the other.    *)
(* PatchSpec : JsonChange applied to bounded target documents and patches. *)
(***************************************************************************)
EXTENDS Integers, Sequences, FiniteSets, TLC

\* ------------------------------------------------------------------ bounds
\* Number of JsonChange calls on the configuration file.
MaxPatches == 2
\* Number of commands the cloud sends (request ids are 1..MaxCmds).
MaxCmds == 2
\* Number of times the agent process is (re)started.
MaxStarts == 3
\* Number of process starts and commands of one run together.
MaxEvents == 4
\* Longest application list of a group deploy.
MaxApps == 2
\* Number of registry operations of one run of the step-level registry model.
MaxRegOps == 3
\* Characters of a package list.
MaxReqLen == 4

\* ------------------------------------------------------- program constants
StatusOK == 200
StatusNoContent == 204
StatusBadRequest == 400
StatusNotFound == 404

\* --------------------------------------------------------------- input sets
AppNames == {"a", "b"}
AppIds == {"1", "2"}
\* "base" is the environment CreateBaseVenv provides, "v" one named by a
\* framework manifest or a command.
VenvNames == {"base", "v"}
\* "" is a command without appGroupId.
GroupIds == {"", "g"}
ArchTypes == {"linux", "win"}

\* The artifact behind a file URL: its framework manifest (runtime, virtualEnv)
\* whether it ships an install.sh (an "old version" artifact) and whether it
\* holds a *.json configuration file.
FileUrls == {"u-py", "u-go", "u-old"}
Artifact(url) ==
    CASE url = "u-py"  -> [old |-> FALSE, runTime |-> "python3.9", virtualEnv |-> "v", config |-> TRUE]
      [] url = "u-go"  -> [old |-> FALSE, runTime |-> "go", virtualEnv |-> "base", config |-> FALSE]
      [] url = "u-old" -> [old |-> TRUE, runTime |-> "python3.9", virtualEnv |-> "v", config |-> TRUE]

\* The step of a deployment at which the environment makes it fail.
\*   download   : the artifact server does not answer 200
\*   venvCreate : conda create fails (no environment directory is left)
\*   venvPkg    : pip install -r fails (the environment directory exists)
\*   install    : install.sh (linux, old artifact) / main.py install (win) fails
\*   weight     : inference directory, weight download or config patch fails
\*   start, enable, pid : systemctl start / enable, GetPid fail
Stages == {"none", "download", "venvCreate", "venvPkg", "install", "weight",
           "start", "enable", "pid"}
\* The sub-step of a Windows delete that fails.
DelStages == {"none", "stop", "remove", "rmdir"}

VARIABLES
    archType,      \* systemArch: -arch flag of the process
    procUp,        \* the agent process is running and subscribed
    starts,        \* number of process starts so far
    configData,    \* in-memory copy of config.json read by RunBody
    configFile,    \* device.config/config.json: reboot marker and requestid
    appInfoFile,   \* device.config/app.json: the Application Registry
    appDirs,       \* application directories {appName}_{appId}
    venvDirs,      \* virtual environment directories
    svcUnits,      \* installed service units (systemd unit file / win service)
    svcEnabled,    \* started and enabled services
    containers,    \* docker containers {appName}-{appId}
    published,     \* messages published to the broker, in order
    nextReq,       \* request id of the next command
    rebootReqs,    \* <<requestId, start>> of the bash "reboot" commands received
    last,          \* the last command, the disk before it and what Control returned
    jsonFile,      \* a configuration file of an application, as JsonChange reads it
    patchCalls,    \* number of JsonChange calls so far
    patchLast,     \* the last JsonChange call: its command, the file before, its return
    regFile,       \* app.json as the file system holds it between two system calls
    regOps,        \* the registry operations that arrived, each with its handler's position
    regUp,         \* the agent process of the registry operations is running
    regSeen,       \* what the process checker last read from app.json
    pkgFile,       \* a package list, the requirements.txt written from it and the return
    modelRun       \* a model update: its command, the service, the steps run, the return

vars == <<archType, procUp, starts, configData, configFile, appInfoFile, appDirs,
          venvDirs, svcUnits, svcEnabled, containers, published, nextReq,
          rebootReqs, last, jsonFile, patchCalls, patchLast, regFile, regOps,
          regUp, regSeen, pkgFile, modelRun>>

\* The variables of the agent process and those of the patch engine.
agentVars == <<archType, procUp, starts, configData, configFile, appInfoFile, appDirs,
               venvDirs, svcUnits, svcEnabled, containers, published, nextReq,
               rebootReqs, last>>

patchVars == <<jsonFile, patchCalls, patchLast>>

regVars == <<regFile, regOps, regUp, regSeen>>

\* No virtual environment call yet: the package list of the command (the
\* characters of venvData.Requirement), no requirements.txt, nothing returned.
NoPkgFile == [Requirement |-> <<>>, op |-> "none", stage |-> "none",
              exists |-> FALSE, lines |-> <<>>, uninstalled |-> <<>>,
              panic |-> FALSE, statusCode |-> 0]

\* The on-disk / OS state the handlers read and write, as one record.
Disk ==
    [appInfo |-> appInfoFile, dirs |-> appDirs, venvs |-> venvDirs,
     units |-> svcUnits, enabled |-> svcEnabled, containers |-> containers,
     config |-> configFile]

SetDisk(d) ==
    /\ appInfoFile' = d.appInfo
    /\ appDirs' = d.dirs
    /\ venvDirs' = d.venvs
    /\ svcUnits' = d.units
    /\ svcEnabled' = d.enabled
    /\ containers' = d.containers
    /\ configFile' = d.config

\* ------------------------------------------------------------ small helpers
RECURSIVE SelectRecs(_, _, _)
\* The subsequence of list whose AppName differs from (keep = FALSE) or whose
\* AppGroupId equals (keep = TRUE) key, in the original order.
SelectRecs(list, key, byGroup) ==
    IF list = <<>> THEN <<>>
    ELSE LET h == Head(list)
             rest == SelectRecs(Tail(list), key, byGroup)
             take == IF byGroup THEN h.AppGroupId = key ELSE h.AppName # key
         IN IF take THEN <<h>> \o rest ELSE rest

\* ------------------------------------------------- Application Registry
AppInfo(appName, appId, appVenv, appManaged, groupId) ==
    [AppName |-> appName, AppId |-> appId, AppVenv |-> appVenv,
     Managed |-> appManaged, AppGroupId |-> groupId]

\* SaveAppInfo: a fresh one-record list when app.json is missing, otherwise the
\* loaded list with the record appended; no check of the name.
SaveAppInfo(d, appName, appId, appVenv, appManaged, groupId) ==
    LET rec == AppInfo(appName, appId, appVenv, appManaged, groupId)
    IN IF ~d.appInfo.exists
       THEN [d EXCEPT !.appInfo = [exists |-> TRUE, list |-> <<rec>>]]
       ELSE [d EXCEPT !.appInfo.list = Append(d.appInfo.list, rec)]

\* DeleteAppInfo: returns without writing when app.json cannot be read,
\* otherwise rewrites it without the records named appName.
DeleteAppInfo(d, appName) ==
    IF ~d.appInfo.exists THEN d
    ELSE [d EXCEPT !.appInfo.list = SelectRecs(d.appInfo.list, appName, FALSE)]

\* A group lookup that finds no record.
GetAppsFromGroupNone(d, appGroupId) == <<>>

\* GetAppsFromGroup: the records whose AppGroupId is appGroupId (their names
\* and ids), in file order; empty when app.json cannot be read.
GetAppsFromGroup(d, appGroupId) ==
    IF ~d.appInfo.exists THEN <<>>
    ELSE SelectRecs(d.appInfo.list, appGroupId, TRUE)

CheckExistApp(d, targetApp) ==
    /\ d.appInfo.exists
    /\ \E i \in 1..Len(d.appInfo.list) : d.appInfo.list[i].AppName = targetApp

\* ------------------------------------------------ Virtual Environment Manager
\* What a step of the Deployment Engine returns: the disk it leaves, whether
\* it returned an error, and its status code.
Ret(d, err, statusCode) == [d |-> d, err |-> err, statusCode |-> statusCode]

\* CreateVenv: conda create, the requirements file, pip install -r.
CreateVenv(d, venvName, stage) ==
    IF stage = "venvCreate" THEN Ret(d, TRUE, StatusBadRequest)
    ELSE LET made == [d EXCEPT !.venvs = @ \cup {venvName}]
         IN IF stage = "venvPkg" THEN Ret(made, TRUE, StatusBadRequest)
            ELSE Ret(made, FALSE, StatusOK)

\* DeleteVenv: refuses "" and "*", otherwise removes the directory; it does
\* not read the registry.
DeleteVenv(d, envName) ==
    IF envName = "" \/ envName = "*" THEN Ret(d, TRUE, StatusBadRequest)
    ELSE Ret([d EXCEPT !.venvs = @ \ {envName}], FALSE, StatusOK)

\* GetVenvList + Contains: the environment is a directory of the venv path.
VenvExists(d, venv) == venv \in d.venvs

\* ------------------------------------------------------- Deployment Engine
\* fileDownload: fetches and unpacks the artifact into {appName}_{appId}
\* (an existing directory of that name stays in place).
fileDownload(d, appId, appName, stage) ==
    IF stage = "download" THEN Ret(d, TRUE, StatusBadRequest)
    ELSE Ret([d EXCEPT !.dirs = @ \cup {<<appName, appId>>}], FALSE, StatusOK)

\* fileDownload indexes segments[1] and segments[2] of the URL's path before
\* anything else: a URL without two path segments, the empty one among them,
\* is an index out of range.
fileDownloadPanics(fullURLFile) == fullURLFile = ""

\* CreatePythonService / CreateGoService: the unit file of the application.
CreateService(d, appName) == [d EXCEPT !.units = @ \cup {appName}]

\* Delete on Windows: a failing stop, remove or directory removal returns
\* before the registry is touched.  Delete on Linux: every sub-step is run
\* whatever the previous one returned (a failed one leaves its piece in
\* place), the registry removal last.
Delete(d, appName, appId, arch, delStage) ==
    IF appName = "" \/ appName = "*" THEN Ret(d, TRUE, StatusBadRequest)
    ELSE IF arch = "win"
    THEN IF delStage = "stop" THEN Ret(d, TRUE, StatusBadRequest)
         ELSE LET stopped == [d EXCEPT !.enabled = @ \ {appName}]
              IN IF delStage = "remove" THEN Ret(stopped, TRUE, StatusBadRequest)
                 ELSE LET removed == [stopped EXCEPT !.units = @ \ {appName}]
                      IN IF delStage = "rmdir"
                         THEN Ret(removed, TRUE, StatusBadRequest)
                         ELSE Ret(DeleteAppInfo(
                                    [removed EXCEPT !.dirs = @ \ {<<appName, appId>>}],
                                    appName), FALSE, StatusOK)
    ELSE Ret(DeleteAppInfo(
               [d EXCEPT !.dirs = IF delStage = "rmdir" THEN @
                                  ELSE @ \ {<<appName, appId>>},
                         !.enabled = IF delStage = "stop" THEN @ ELSE @ \ {appName},
                         !.units = IF delStage = "remove" THEN @ ELSE @ \ {appName}],
               appName), FALSE, StatusOK)

RECURSIVE InferenceDeleteLoop(_, _)
\* The loop of InferenceDelete over the records GetAppsFromGroup returned.
InferenceDeleteLoop(d, apps) ==
    IF apps = <<>> THEN d
    ELSE LET h == Head(apps)
             one == DeleteAppInfo(
                      [d EXCEPT !.dirs = @ \ {<<h.AppName, h.AppId>>},
                                !.enabled = @ \ {h.AppName},
                                !.units = @ \ {h.AppName}],
                      h.AppName)
         IN InferenceDeleteLoop(one, Tail(apps))

\* InferenceDelete: an error when the group has no application, otherwise one
\* result per application removed.
InferenceDelete(d, apps) ==
    IF Len(apps) = 0
    THEN [d |-> d, err |-> TRUE, statusCode |-> StatusBadRequest, removed |-> <<>>]
    ELSE [d |-> InferenceDeleteLoop(d, apps), err |-> FALSE,
          statusCode |-> StatusOK, removed |-> apps]

\* What Deploy returns besides Ret: the resolved venv name, whether the
\* artifact was fetched and whether a self-deploy venvCreate message went out.
DeployRet(d, err, statusCode, venv, downloaded, selfMsg) ==
    [d |-> d, err |-> err, statusCode |-> statusCode, venv |-> venv,
     downloaded |-> downloaded, selfMsg |-> selfMsg]

\* The venv name and runtime Deploy works with: "" and "app-store" resolve to
\* the manifest's own environment.
ResolveVenv(venv, art) ==
    IF venv = "app-store" \/ venv = "" THEN art.virtualEnv ELSE venv

IsPython(art) == art.runTime = "python3.9"

\* Deploy, Windows branch (after a successful download).
DeployWin(d, appName, appId, venv0, art, stage) ==
    IF CheckExistApp(d, appName)
    THEN DeployRet(d, TRUE, StatusBadRequest, venv0, TRUE, FALSE)
    ELSE
    LET venv == ResolveVenv(venv0, art)
        needVenv == IsPython(art) /\ ~VenvExists(d, venv)
        cv == IF needVenv THEN CreateVenv(d, venv, stage) ELSE Ret(d, FALSE, StatusOK)
    IN IF cv.err THEN DeployRet(cv.d, TRUE, cv.statusCode, venv, TRUE, FALSE)
       ELSE
       LET saved == SaveAppInfo(cv.d, appName, appId, venv, "systemd", "")
       IN IF stage = "install"
          THEN DeployRet(saved, TRUE, StatusBadRequest, venv, TRUE, needVenv)
          ELSE
          LET inst == CreateService(saved, appName)
          IN IF stage \in {"enable", "start"}
             THEN DeployRet(inst, TRUE, StatusBadRequest, venv, TRUE, needVenv)
             ELSE DeployRet([inst EXCEPT !.enabled = @ \cup {appName}],
                            FALSE, StatusOK, venv, TRUE, needVenv)

\* Deploy, Linux branch (after a successful download).
DeployLinux(d, appName, appId, venv0, art, stage) ==
    IF art.old
    THEN \* install.sh installs, starts and enables the unit; no registry record
         IF stage = "install"
         THEN DeployRet(d, TRUE, StatusBadRequest, venv0, TRUE, FALSE)
         ELSE LET run == [d EXCEPT !.units = @ \cup {appName},
                                   !.enabled = @ \cup {appName}]
              IN IF stage = "pid"
                 THEN DeployRet(run, TRUE, StatusBadRequest, venv0, TRUE, FALSE)
                 ELSE DeployRet(run, FALSE, StatusOK, venv0, TRUE, FALSE)
    ELSE
    IF CheckExistApp(d, appName)
    THEN DeployRet(d, TRUE, StatusBadRequest, venv0, TRUE, FALSE)
    ELSE
    LET venv == ResolveVenv(venv0, art)
        needVenv == IsPython(art) /\ ~VenvExists(d, venv)
        cv == IF needVenv THEN CreateVenv(d, venv, stage) ELSE Ret(d, FALSE, StatusOK)
    IN IF cv.err THEN DeployRet(cv.d, TRUE, cv.statusCode, venv, TRUE, FALSE)
       ELSE
       LET unit == CreateService(cv.d, appName)
           saved == SaveAppInfo(unit, appName, appId, venv, "systemd", "")
       IN IF stage \in {"start", "enable"}
          THEN DeployRet(saved, TRUE, StatusBadRequest, venv, TRUE, needVenv)
          ELSE LET run == [saved EXCEPT !.enabled = @ \cup {appName}]
               IN IF stage = "pid"
                  THEN DeployRet(run, TRUE, StatusBadRequest, venv, TRUE, needVenv)
                  ELSE DeployRet(run, FALSE, StatusOK, venv, TRUE, needVenv)

\* Deploy: download first, then the platform branch.
Deploy(d, deployData, arch, stage) ==
    LET dl == fileDownload(d, deployData.AppId, deployData.AppName, stage)
        art == Artifact(deployData.FileUrl)
    IN IF dl.err
       THEN DeployRet(dl.d, TRUE, StatusBadRequest, deployData.VenvName, FALSE, FALSE)
       ELSE IF arch = "win"
            THEN DeployWin(dl.d, deployData.AppName, deployData.AppId,
                           deployData.VenvName, art, stage)
            ELSE DeployLinux(dl.d, deployData.AppName, deployData.AppId,
                             deployData.VenvName, art, stage)

\* What InferenceDeploy returns: results holds one entry (the application
\* name) per member that went through the whole loop body.
InfRet(d, err, statusCode, results, selfMsgs) ==
    [d |-> d, err |-> err, statusCode |-> statusCode, results |-> results,
     selfMsgs |-> selfMsgs]

RECURSIVE InferenceDeployLoop(_, _, _, _, _, _, _, _)
\* The loop of InferenceDeploy from member i on.  Member failIdx meets the
\* environment failure `stage`, every other member meets none.
InferenceDeployLoop(d, apps, i, groupId, failIdx, stage, results, selfMsgs) ==
    IF i > Len(apps) THEN InfRet(d, FALSE, StatusOK, results, selfMsgs)
    ELSE
    LET appItem == apps[i]
        st == IF i = failIdx THEN stage ELSE "none"
        art == Artifact(appItem.FileUrl)
        dl == fileDownload(d, appItem.AppId, appItem.AppName, st)
    IN IF dl.err THEN InfRet(dl.d, TRUE, StatusBadRequest, results, selfMsgs)
       ELSE IF CheckExistApp(dl.d, appItem.AppName)
       THEN InfRet(dl.d, TRUE, StatusBadRequest, results, selfMsgs)
       ELSE
       LET venv == ResolveVenv(appItem.VenvName, art)
           needVenv == ~VenvExists(dl.d, venv)
           cv == IF needVenv THEN CreateVenv(dl.d, venv, st)
                 ELSE Ret(dl.d, FALSE, StatusOK)
           msgs == IF needVenv THEN selfMsgs + 1 ELSE selfMsgs
       IN IF cv.err THEN InfRet(cv.d, TRUE, cv.statusCode, results, selfMsgs)
          ELSE
          LET saved == SaveAppInfo(cv.d, appItem.AppName, appItem.AppId, venv,
                                   "systemd", groupId)
              unit == CreateService(saved, appItem.AppName)
          IN IF appItem.AppType \notin {"INFERENCE", "REQUEST"}
             THEN InfRet(unit, TRUE, StatusBadRequest, results, msgs)
             ELSE IF appItem.AppType = "INFERENCE" /\ st = "weight"
             THEN InfRet(unit, TRUE, StatusBadRequest, results, msgs)
             ELSE IF st \in {"start", "enable"}
             THEN InfRet(unit, TRUE, StatusBadRequest, results, msgs)
             ELSE LET run == [unit EXCEPT !.enabled = @ \cup {appItem.AppName}]
                  IN IF st = "pid"
                     THEN InfRet(run, TRUE, StatusBadRequest, results, msgs)
                     ELSE InferenceDeployLoop(run, apps, i + 1, groupId, failIdx,
                                              stage, Append(results, appItem.AppName),
                                              msgs)

InferenceDeploy(d, deployData, failIdx, stage) ==
    InferenceDeployLoop(d, deployData.Apps, 1, deployData.AppGroupId, failIdx,
                        stage, <<>>, 0)

\* ------------------------------------------------------------ docker.go
\* The step of a container deployment / removal that fails.
DockerStages == {"none", "pull", "create", "start"}

\* CreateContainer: pull, create (the daemon refuses a container name in use),
\* start, then the registry record; no CheckExistApp.
CreateContainer(d, appName, appId, stage) ==
    IF stage = "pull" THEN Ret(d, TRUE, StatusBadRequest)
    ELSE IF stage = "create" \/ <<appName, appId>> \in d.containers
    THEN Ret(d, TRUE, StatusBadRequest)
    ELSE LET made == [d EXCEPT !.containers = @ \cup {<<appName, appId>>}]
         IN IF stage = "start" THEN Ret(made, TRUE, StatusBadRequest)
            ELSE Ret(SaveAppInfo(made, appName, appId, "", "dockerd", ""),
                     FALSE, StatusOK)

\* DeleteContainer: 404 when no container has the name; stop, remove, then
\* the registry removal.
DeleteContainer(d, appName, appId, stage) ==
    IF stage = "pull" THEN Ret(d, TRUE, StatusBadRequest)
    ELSE IF <<appName, appId>> \notin d.containers
    THEN Ret(d, TRUE, StatusNotFound)
    ELSE IF stage \in {"create", "start"} THEN Ret(d, TRUE, StatusBadRequest)
    ELSE Ret(DeleteAppInfo([d EXCEPT !.containers = @ \ {<<appName, appId>>}],
                           appName), FALSE, StatusOK)

\* ------------------------------------------------------- reboot marker
\* Rebooting rewrites /etc/sdt/device.config/config.json whatever the
\* platform; that is the file RunBody reads on linux only (rootPath is C:/sdt
\* on win, where the read fails and nothing is written).
Rebooting(d, arch, rebootVal, requestid) ==
    IF arch = "win" THEN Ret(d, TRUE, StatusBadRequest)
    ELSE Ret([d EXCEPT !.config = [Reboot |-> rebootVal, RequestId |-> requestid]],
             FALSE, StatusOK)

\* ------------------------------------------------------------ validators
CheckBash(checkData) == checkData.Cmd # ""

CheckSystemd(checkData) == checkData.Cmd # "" /\ checkData.Service # ""

\* A CheckDocker that lets every command through.
CheckDockerAny(subCmd, checkData) == TRUE

CheckDocker(subCmd, checkData) ==
    IF subCmd = "appDeploy" THEN checkData.Image # "" ELSE checkData.AppName # ""

CheckVenv(subCmd, checkData) ==
    IF subCmd = "venvCreate"
    THEN checkData.VenvName # "" /\ checkData.BinFile # ""
    ELSE TRUE

CheckDeploy(subCmd, checkData) ==
    IF subCmd = "appDeploy"
    THEN ~(checkData.FileUrl = "" /\ checkData.Image = "" /\ checkData.AppsNil)
    ELSE ~(checkData.AppName = "" /\ checkData.AppGroupId = "")

\* ------------------------------------------- Configuration Patch Engine
\* JSON values.  A document is a function from keys to values; a value is
\*   "string"  : str
\*   "number"  : a json.Number, i.e. the literal's text: integer part and the
\*               digits after the point (<<>> when the literal has no point)
\*   "float64" : a number of the patch (json.Unmarshal without UseNumber), held
\*               in hundredths
\*   "map"     : a nested document
\*   "nil"     : what a failed nested changeInterface leaves in memory
\*   "null", "bool", "array" : JSON null (the nil interface), a boolean, an
\*               array; only the kind matters to the patch engine
NoTok == [int |-> 0, frac |-> <<>>]
NoMap == [k \in {} |-> 0]
JStr(s) == [kind |-> "string", str |-> s, tok |-> NoTok, f64 |-> 0, map |-> NoMap]
JNum(int, frac) ==
    [kind |-> "number", str |-> "", tok |-> [int |-> int, frac |-> frac], f64 |-> 0,
     map |-> NoMap]
JF64(h) == [kind |-> "float64", str |-> "", tok |-> NoTok, f64 |-> h, map |-> NoMap]
JMap(f) == [kind |-> "map", str |-> "", tok |-> NoTok, f64 |-> 0, map |-> f]
JNil == [kind |-> "nil", str |-> "", tok |-> NoTok, f64 |-> 0, map |-> NoMap]

\* No model command yet: the command's modelFileKey (its names and dots) and
\* parameter map, whether the application's service runs, and nothing done.
NoModelRun ==
    [ModelFileKey |-> <<>>, Parameter |-> NoMap, running |-> FALSE, op |-> "none",
     stage |-> "none", steps |-> <<>>, panic |-> FALSE, err |-> FALSE,
     statusCode |-> 0]

\* fmt.Sprintf("%.1f", f): f rounded to one decimal, a tie going to the even
\* digit (the patch numbers of the model are exact in binary).
Sprintf1f(h) ==
    LET q == h \div 10
        r == h % 10
        t == IF r > 5 \/ (r = 5 /\ q % 2 = 1) THEN q + 1 ELSE q
    IN [int |-> t \div 10, frac |-> <<t % 10>>]

\* encoding/json on a float64: the shortest text that reads back the same.
FormatFloat(h) ==
    LET c == h % 100
    IN [int |-> h \div 100,
        frac |-> IF c = 0 THEN <<>>
                 ELSE IF c % 10 = 0 THEN <<c \div 10>>
                 ELSE <<c \div 10, c % 10>>]

\* A conversion that writes the number as encoding/json would.
ToNumberPlain(f) == [JNil EXCEPT !.kind = "number", !.tok = FormatFloat(f.f64)]

\* ToNumber: a float64 becomes the json.Number of its "%.1f" text, a string
\* the json.Number of itself.
ToNumber(f) ==
    IF f.kind = "float64"
    THEN [JNil EXCEPT !.kind = "number", !.tok = Sprintf1f(f.f64)]
    ELSE [JNil EXCEPT !.kind = "number", !.str = f.str]

\* json.Number.Int64 succeeds on a literal without point (or exponent).
IsInt64(n) == n.tok.frac = <<>>

NoErr == [msg |-> "", key |-> ""]

\* A kind test that lets every patch value through.
SameKindAny(val, t) == TRUE

\* changeInterface, target value a map: reflect.TypeOf(val).Kind() == paramType.Kind().
SameKind(val, t) == val.kind = t.kind

\* A loop body that stores the value of a key the target does not hold.
AddKey(target, key, val) ==
    [k \in DOMAIN target \cup {key} |-> IF k = key THEN val ELSE target[k]]

\* changeInterface, `if _, exist := target[key]; exist` without an else: a
\* key of the patch the target does not hold leaves the target as it is.
SkipKey(target, key, val) == target

RECURSIVE changeInterface(_, _, _)
RECURSIVE changeLoop(_, _, _, _, _)
\* The body of changeInterface's range loop from position i of the iteration
\* order on, with the target and err as the earlier iterations left them.
\* reflect.TypeOf of a nil interface is the nil Type, whose Kind() call
\* panics: a null under the key, in the target or in the patch.  ToNumber
\* asserts a value that is neither float64 nor string to int: a boolean or
\* an array for a decimal target panics.
changeLoop(data, target, order, i, err) ==
    IF i > Len(order)
    THEN [val |-> target, nil |-> FALSE, err |-> err, panic |-> FALSE]
    ELSE
    LET key == order[i]
        val == data[key]
        crash == [val |-> target, nil |-> FALSE, err |-> NoErr, panic |-> TRUE]
    IN IF key \notin DOMAIN target
       THEN changeLoop(data, SkipKey(target, key, val), order, i + 1, err)
       ELSE IF err # NoErr
       THEN [val |-> target, nil |-> TRUE, err |-> err, panic |-> FALSE]
       ELSE
       LET t == target[key]
       IN IF t.kind = "null" \/ val.kind = "null"
          THEN crash
          ELSE IF t.kind = "map"
          THEN IF SameKind(val, t)
               THEN LET r == changeInterface(val.map, t.map, <<>>)
                        v == IF r.nil THEN JNil ELSE JMap(r.val)
                    IN IF r.panic THEN crash
                       ELSE changeLoop(data, [target EXCEPT ![key] = v], order,
                                       i + 1, r.err)
               ELSE [val |-> target, nil |-> TRUE, panic |-> FALSE,
                     err |-> [msg |-> "Check [%s] parameter", key |-> key]]
          ELSE IF val.kind = "map"
          THEN [val |-> target, nil |-> TRUE, panic |-> FALSE,
                err |-> [msg |-> "Check %s parameter", key |-> key]]
          ELSE IF val.kind = "string"
          THEN changeLoop(data, [target EXCEPT ![key] = val], order, i + 1, err)
          ELSE IF t.kind # "number"
          THEN changeLoop(data, [target EXCEPT ![key] = val], order, i + 1, err)
          ELSE IF IsInt64(t)
          THEN changeLoop(data, [target EXCEPT ![key] = val], order, i + 1, NoErr)
          ELSE IF val.kind \in {"bool", "array"}
          THEN crash
          ELSE changeLoop(data, [target EXCEPT ![key] = ToNumber(val)], order,
                          i + 1, NoErr)

\* The sequences that enumerate set S once each: the orders a range over a
\* Go map with these keys can take.
Orders(S) ==
    {o \in [1..Cardinality(S) -> S] : \A i, j \in 1..Cardinality(S) : i # j => o[i] # o[j]}

\* changeInterface(data, target) with the keys of data visited in `order`
\* (<<>>: a nested map of the model holds one key at most, its order is
\* the only one).
changeInterface(data, target, order) ==
    changeLoop(data, target,
               IF order = <<>> /\ DOMAIN data # {}
               THEN CHOOSE o \in Orders(DOMAIN data) : TRUE
               ELSE order,
               1, NoErr)

RECURSIVE Marshal(_)
\* json.MarshalIndent of the patched document, read back as a later
\* JsonChange decodes it (UseNumber): every number is a literal text again.
Marshal(doc) ==
    [k \in DOMAIN doc |->
        CASE doc[k].kind = "float64" ->
                 [JNil EXCEPT !.kind = "number", !.tok = FormatFloat(doc[k].f64)]
          [] doc[k].kind = "map" -> JMap(Marshal(doc[k].map))
          [] OTHER -> doc[k]]

\* JsonChange: nothing to do without Parameter or FileName; 400 when the file
\* cannot be read or the patch does not fit; otherwise the file is rewritten.
\* A panic of changeInterface leaves the file as it was and returns nothing.
JsonChange(file, configCmd) ==
    IF ~configCmd.hasParameter \/ configCmd.FileName = ""
    THEN [file |-> file, err |-> NoErr, statusCode |-> StatusOK, panic |-> FALSE]
    ELSE IF ~file.exists
    THEN [file |-> file, err |-> [msg |-> "read", key |-> ""],
          statusCode |-> StatusBadRequest, panic |-> FALSE]
    ELSE LET r == changeInterface(configCmd.Parameter, file.doc, configCmd.order)
         IN IF r.panic
            THEN [file |-> file, err |-> NoErr, statusCode |-> 0, panic |-> TRUE]
            ELSE IF r.err # NoErr
            THEN [file |-> file, err |-> r.err, statusCode |-> StatusBadRequest,
                  panic |-> FALSE]
            ELSE [file |-> [exists |-> TRUE, doc |-> Marshal(r.val)],
                  err |-> NoErr, statusCode |-> StatusOK, panic |-> FALSE]

\* ------------------------------------------------------ Config (read side)
\* GetConfig's status code: 200 with an error when the application directory
\* cannot be read, 204 when it holds no json file, 200 otherwise; never 400.
GetConfig(d, appId, appName, art) ==
    IF <<appName, appId>> \notin d.dirs THEN StatusOK
    ELSE IF art.config THEN StatusOK ELSE StatusNoContent

\* --------------------------------------------------------- result envelopes
\* ResultMsg with a single Result (NewCmdResult + NewCmdStatus).
ResultMsg(requestId, subCommand, err, statusCode) ==
    [RequestId |-> requestId, hasResult |-> TRUE, SubCommand |-> subCommand,
     Results |-> <<>>, Succeed |-> IF err THEN 0 ELSE 1,
     StatusCode |-> statusCode]

\* A Results envelope that carries the first list member only.
ResultsMsgFirst(requestId, apps, err, statusCode) ==
    [RequestId |-> requestId, hasResult |-> FALSE, SubCommand |-> "",
     Results |-> <<[AppName |-> apps[1].AppName, Pid |-> IF err THEN -1 ELSE 1]>>,
     Succeed |-> IF err THEN 0 ELSE 1, StatusCode |-> statusCode]

\* ResultMsg with Results (Result stays nil): one entry per element of
\* deployData.Apps, Pid -1 in each when cmdErr is set.
ResultsMsg(requestId, apps, err, statusCode) ==
    [RequestId |-> requestId, hasResult |-> FALSE, SubCommand |-> "",
     Results |-> [i \in 1..Len(apps) |->
                    [AppName |-> apps[i].AppName, Pid |-> IF err THEN -1 ELSE 1]],
     Succeed |-> IF err THEN 0 ELSE 1, StatusCode |-> statusCode]

FormError(requestId, subCmd) == ResultMsg(requestId, subCmd, TRUE, StatusBadRequest)

\* What Control hands back: the disk it leaves, the result envelope, the
\* number of self-deploy messages it published on the way, and (for the
\* properties) the error, the status code and whether an artifact was fetched.
\* configResult is declared by Control and returned as declared: no case
\* assigns it, its AssetCode is the empty string.
CtlRet(d, result, selfMsgs, downloaded) ==
    [d |-> d, result |-> result, configResult |-> [AssetCode |-> ""],
     selfMsgs |-> selfMsgs, downloaded |-> downloaded, panic |-> FALSE]

\* Control does not return: a run-time panic in the handler's goroutine, which
\* nothing recovers, ends the process with the disk as the handler left it.
CtlPanic(d) ==
    [d |-> d, result |-> ResultMsg(0, "", FALSE, 0),
     configResult |-> [AssetCode |-> ""], selfMsgs |-> 0, downloaded |-> FALSE,
     panic |-> TRUE]

\* Control, case "bash".
ControlBash(d, m, arch, env) ==
    LET bashData == m.CmdInfo
    IN IF ~CheckBash(bashData)
       THEN CtlRet(d, FormError(m.RequestId, bashData.Cmd), 0, FALSE)
       ELSE LET d1 == IF bashData.Cmd = "reboot"
                      THEN Rebooting(d, arch, "rebooting", m.RequestId).d
                      ELSE d
                statusCode == IF env.bashFail THEN StatusBadRequest ELSE StatusOK
            IN CtlRet(d1, ResultMsg(m.RequestId, bashData.Cmd, env.bashFail, statusCode),
                      0, FALSE)

\* Control, case "systemd": refused on win, systemctl {cmd} {service} elsewhere
\* (the service it names is none of the application units of the model).
ControlSystemd(d, m, arch, env) ==
    LET systemdData == m.CmdInfo
    IN IF ~CheckSystemd(systemdData)
       THEN CtlRet(d, FormError(m.RequestId, systemdData.Cmd), 0, FALSE)
       ELSE LET cmdErr == arch = "win" \/ env.bashFail
                statusCode == IF cmdErr THEN StatusBadRequest ELSE StatusOK
            IN CtlRet(d, ResultMsg(m.RequestId, systemdData.Cmd, cmdErr, statusCode),
                      0, FALSE)

\* Control, case "virtualEnv".
ControlVenv(d, m, arch, env) ==
    LET venvData == m.CmdInfo
    IN IF ~CheckVenv(m.SubCmdType, venvData)
       THEN CtlRet(d, FormError(m.RequestId, m.SubCmdType), 0, FALSE)
       ELSE
       LET r == IF m.SubCmdType = "venvCreate"
                THEN LET cv == CreateVenv(d, venvData.VenvName, env.stage)
                     IN IF cv.statusCode = StatusBadRequest
                        THEN Ret(DeleteVenv(cv.d, venvData.VenvName).d, cv.err,
                                 cv.statusCode)
                        ELSE cv
                ELSE IF m.SubCmdType = "venvDelete"
                THEN DeleteVenv(d, venvData.VenvName)
                ELSE Ret(d, FALSE, 0)
           statusCode == IF r.err THEN StatusBadRequest ELSE StatusOK
       IN CtlRet(r.d, ResultMsg(m.RequestId, m.SubCmdType, r.err, statusCode),
                 0, FALSE)

\* InferenceDelete as Control's rollback and group delete see it on each
\* platform: its shell commands name the linux paths, so on win only the
\* registry removal takes effect.
InferenceDeleteOn(d, apps, arch) ==
    LET r == InferenceDelete(d, apps)
    IN IF arch = "win" /\ ~r.err
       THEN [r EXCEPT !.d = [d EXCEPT !.appInfo = r.d.appInfo]]
       ELSE r

\* Control, case "deploy", appDeploy with a non-empty Apps list.
ControlGroupDeploy(d, m, arch, env) ==
    LET deployData == m.CmdInfo
        inf == InferenceDeploy(d, deployData, env.failIdx, env.stage)
        n == Len(deployData.Apps)
        lastApp == deployData.Apps[n]
    IN IF inf.statusCode = StatusBadRequest
       THEN LET apps == GetAppsFromGroup(inf.d, deployData.AppGroupId)
                rb == InferenceDeleteOn(inf.d, apps, arch)
            IN CtlRet(rb.d,
                      ResultsMsg(m.RequestId, deployData.Apps, inf.err, inf.statusCode),
                      inf.selfMsgs, TRUE)
       ELSE LET statusCode == GetConfig(inf.d, lastApp.AppId, lastApp.AppName,
                                        Artifact(lastApp.FileUrl))
            IN CtlRet(inf.d,
                      ResultsMsg(m.RequestId, deployData.Apps, inf.err, statusCode),
                      inf.selfMsgs, TRUE)

\* Control, case "deploy", appDeploy of a single application.
ControlDeploy(d, m, arch, env) ==
    LET deployData == m.CmdInfo
        dep == Deploy(d, deployData, arch, env.stage)
        selfMsgs == IF dep.selfMsg THEN 1 ELSE 0
    IN IF fileDownloadPanics(deployData.FileUrl)
       THEN CtlPanic(d)
       ELSE IF dep.statusCode = StatusBadRequest
       THEN LET del == Delete(dep.d, deployData.AppName, deployData.AppId, arch,
                              env.delStage)
            IN CtlRet(del.d,
                      ResultMsg(m.RequestId, m.SubCmdType, dep.err, dep.statusCode),
                      selfMsgs, dep.downloaded)
       ELSE LET statusCode == GetConfig(dep.d, deployData.AppId, deployData.AppName,
                                        Artifact(deployData.FileUrl))
            IN CtlRet(dep.d,
                      ResultMsg(m.RequestId, m.SubCmdType, dep.err, statusCode),
                      selfMsgs, dep.downloaded)

\* Control, case "deploy", appDelete: one application, or the group's. The
\* removed applications are appended to the command's own Apps list and the
\* result loop runs over that list while inferenceResult holds one entry per
\* removed application: after a successful removal a command that carried an
\* Apps list indexes inferenceResult beyond its length.
ControlAppDelete(d, m, arch, env) ==
    LET deployData == m.CmdInfo
    IN IF deployData.AppGroupId = ""
       THEN LET del == Delete(d, deployData.AppName, deployData.AppId, arch,
                              env.delStage)
            IN CtlRet(del.d,
                      ResultMsg(m.RequestId, m.SubCmdType, del.err, del.statusCode),
                      0, FALSE)
       ELSE LET apps == GetAppsFromGroup(d, deployData.AppGroupId)
                del == InferenceDeleteOn(d, apps, arch)
                all == deployData.Apps \o del.removed
            IN IF ~del.err /\ Len(deployData.Apps) > 0
               THEN CtlPanic(del.d)
               ELSE
               CtlRet(del.d,
                      IF Len(all) > 0
                      THEN ResultsMsg(m.RequestId, all, del.err, del.statusCode)
                      ELSE ResultMsg(m.RequestId, m.SubCmdType, del.err, del.statusCode),
                      0, FALSE)

\* Control, case "deploy".  A sub-command that is none of appDeploy, appDelete,
\* appStart, appStop runs no branch: cmdErr is nil and commonResult is the nil
\* map, whose "pid" entry is the nil interface; asserting it to int panics.
ControlDeployCase(d, m, arch, env) ==
    IF ~CheckDeploy(m.SubCmdType, m.CmdInfo)
    THEN CtlRet(d, FormError(m.RequestId, m.SubCmdType), 0, FALSE)
    ELSE IF m.SubCmdType = "appDeploy"
    THEN IF Len(m.CmdInfo.Apps) > 0
         THEN ControlGroupDeploy(d, m, arch, env)
         ELSE ControlDeploy(d, m, arch, env)
    ELSE IF m.SubCmdType = "appDelete"
    THEN ControlAppDelete(d, m, arch, env)
    ELSE CtlPanic(d)

\* Control, case "docker".
ControlDocker(d, m, arch, env) ==
    LET dockerData == m.CmdInfo
    IN IF ~CheckDocker(m.SubCmdType, dockerData)
       THEN CtlRet(d, FormError(m.RequestId, m.SubCmdType), 0, FALSE)
       ELSE
       LET r == IF m.SubCmdType = "appDeploy"
                THEN CreateContainer(d, dockerData.AppName, dockerData.AppId,
                                     env.dockerStage)
                ELSE IF m.SubCmdType = "appDelete"
                THEN DeleteContainer(d, dockerData.AppName, dockerData.AppId,
                                     env.dockerStage)
                ELSE Ret(d, FALSE, 0)
       IN CtlRet(r.d, ResultMsg(m.RequestId, m.SubCmdType, r.err, r.statusCode),
                 0, FALSE)

\* Control, case "config", configFix.  A command without a file name makes
\* JsonChange return nil and 200 without reading a file; one that names a
\* file (and carries a parameter map) of an application whose directory is
\* absent makes it return the read error.  GetConfig then sets the status
\* code whatever JsonChange returned; cmdErr is JsonChange's.
ControlConfig(d, m, arch, env) ==
    LET jsonData == m.CmdInfo
        cmdErr == /\ m.SubCmdType = "configFix"
                  /\ jsonData.FileName # ""
                  /\ <<jsonData.AppName, jsonData.AppId>> \notin d.dirs
        statusCode == IF m.SubCmdType = "configFix"
                      THEN GetConfig(d, jsonData.AppId, jsonData.AppName,
                                     [config |-> TRUE])
                      ELSE 0
    IN CtlRet(d, ResultMsg(m.RequestId, m.SubCmdType, cmdErr, statusCode), 0, FALSE)

\* Control: the switch on m.CmdType.
Control(d, m, arch, env) ==
    CASE m.CmdType = "bash" -> ControlBash(d, m, arch, env)
      [] m.CmdType = "systemd" -> ControlSystemd(d, m, arch, env)
      [] m.CmdType = "virtualEnv" -> ControlVenv(d, m, arch, env)
      [] m.CmdType = "deploy" -> ControlDeployCase(d, m, arch, env)
      [] m.CmdType = "docker" -> ControlDocker(d, m, arch, env)
      [] m.CmdType = "config" -> ControlConfig(d, m, arch, env)
      [] OTHER -> CtlRet(d, [ResultMsg(m.RequestId, m.SubCmdType, TRUE, StatusNotFound)
                               EXCEPT !.Succeed = 0], 0, FALSE)

\* ------------------------------------------------------------- SubMessage
\* CmdInfo as the per-type structs see it after json.Unmarshal: a field the
\* message does not carry has its zero value.
NoInfo ==
    [Cmd |-> "", VenvName |-> "", BinFile |-> "", AppName |-> "", AppId |-> "",
     FileUrl |-> "", Image |-> "", Apps |-> <<>>, AppGroupId |-> "", Service |-> "",
     AppsNil |-> TRUE, FileName |-> ""]

\* What the environment does to the command: no failure at all.
NoEnv ==
    [stage |-> "none", failIdx |-> 0, delStage |-> "none", dockerStage |-> "none",
     bashFail |-> FALSE, pubFail |-> "none", bad |-> "none"]

CmdControl(requestId, cmdType, subCmdType, cmdInfo) ==
    [RequestId |-> requestId, CmdType |-> cmdType, SubCmdType |-> subCmdType,
     CmdInfo |-> cmdInfo]

NoCmd == CmdControl(0, "", "", NoInfo)

NoResult == ResultMsg(0, "", FALSE, 0)

\* The messages on the broker.  kind "ack": SendAckMessage; "result": a
\* ResultMsg on the response topic; "self": the venvCreate message a deploy
\* publishes on the self-deploy topic under a fresh uuid (RequestId -1).
\* proc is the process (its start number) that published the message.
AckMsg(requestId, proc) ==
    [kind |-> "ack", proc |-> proc, RequestId |-> requestId, hasResult |-> FALSE,
     SubCommand |-> "", Results |-> <<>>, Succeed |-> 1, StatusCode |-> 0]

ResultPub(result, proc) ==
    [kind |-> "result", proc |-> proc, RequestId |-> result.RequestId,
     hasResult |-> result.hasResult, SubCommand |-> result.SubCommand,
     Results |-> result.Results, Succeed |-> result.Succeed,
     StatusCode |-> result.StatusCode]

SelfMsg(proc) ==
    [kind |-> "self", proc |-> proc, RequestId |-> -1, hasResult |-> TRUE,
     SubCommand |-> "venvCreate", Results |-> <<>>, Succeed |-> 1,
     StatusCode |-> StatusOK]

\* The Config Result Envelope on the response topic.
ConfigPub(requestId, proc) ==
    [kind |-> "config", proc |-> proc, RequestId |-> requestId, hasResult |-> TRUE,
     SubCommand |-> "", Results |-> <<>>, Succeed |-> 1, StatusCode |-> StatusOK]

\* A SubMessage that publishes every result.
SendsEveryResult(result) == TRUE

\* SubMessage publishes the result unless it is a single Result whose
\* SubCommand is "reboot".
SendsResult(result) == ~result.hasResult \/ result.SubCommand # "reboot"

\* A SubMessage that publishes the result ahead of the ack.
OutboundResultFirst(ack, selfs, res) == res \o <<ack>> \o selfs

\* What one SubMessage call puts on the broker, in order: the ack, what
\* Control published on its way, the result.
Outbound(ack, selfs, res) == <<ack>> \o selfs \o res

\* SendAckMessage and SendDataEdgeMqtt: when the publish token carries an
\* error the function logs it and calls os.Exit(1).  pubFail names the
\* publication of this command the broker client fails ("ack", "result").
SendExits(pubFail, kind) == pubFail = kind

\* SubMessage for a payload that parses as a command envelope.
SubMessage(m, env) ==
    /\ procUp
    /\ nextReq <= MaxCmds
    /\ starts + nextReq <= MaxEvents
    /\ \E c \in {Control(Disk, m, archType, env)} :
       LET ackExit == SendExits(env.pubFail, "ack")
           selfs == [i \in 1..c.selfMsgs |-> SelfMsg(starts)]
           sent == SendsResult(c.result)
           resExit == ~ackExit /\ ~c.panic /\ sent /\ SendExits(env.pubFail, "result")
           res == IF sent /\ ~resExit THEN <<ResultPub(c.result, starts)>> ELSE <<>>
           cfg == IF c.configResult.AssetCode # ""
                  THEN <<ConfigPub(m.RequestId, starts)>>
                  ELSE <<>>
       IN IF ackExit
          THEN /\ SetDisk(Disk)
               /\ procUp' = FALSE
               /\ published' = published
               /\ last' = [op |-> "pubfail", m |-> m, env |-> env, pre |-> Disk,
                           result |-> NoResult, downloaded |-> FALSE, sent |-> FALSE]
          ELSE /\ SetDisk(c.d)
               /\ procUp' = (~c.panic /\ ~resExit)
               /\ published' =
                      IF c.panic
                      THEN Append(published, AckMsg(m.RequestId, starts))
                      ELSE IF resExit
                      THEN published \o Outbound(AckMsg(m.RequestId, starts), selfs, res)
                      ELSE published \o Outbound(AckMsg(m.RequestId, starts), selfs, res)
                                     \o cfg
               /\ last' = [op |-> IF c.panic THEN "panic"
                                  ELSE IF resExit THEN "pubfail" ELSE "cmd",
                           m |-> m, env |-> env, pre |-> Disk, result |-> c.result,
                           downloaded |-> c.downloaded,
                           sent |-> sent /\ ~c.panic /\ ~resExit]
    /\ rebootReqs' = IF m.CmdType = "bash" /\ m.CmdInfo.Cmd = "reboot"
                      THEN rebootReqs \cup {<<m.RequestId, starts>>}
                      ELSE rebootReqs
    /\ nextReq' = nextReq + 1
    /\ UNCHANGED <<archType, starts, configData>>
    /\ UNCHANGED patchVars
    /\ UNCHANGED regVars
    /\ UNCHANGED pkgFile
    /\ UNCHANGED modelRun

\* SubMessage for a payload json.Unmarshal rejects: logged, nothing published.
RecvMalformed ==
    /\ procUp
    /\ nextReq <= MaxCmds
    /\ starts + nextReq <= MaxEvents
    /\ last' = [op |-> "malformed", m |-> NoCmd, env |-> NoEnv, pre |-> Disk,
                result |-> NoResult, downloaded |-> FALSE, sent |-> FALSE]
    /\ nextReq' = nextReq + 1
    /\ UNCHANGED <<archType, procUp, starts, configData, configFile, appInfoFile,
                   appDirs, venvDirs, svcUnits, svcEnabled, containers, published,
                   rebootReqs>>
    /\ UNCHANGED patchVars
    /\ UNCHANGED regVars
    /\ UNCHANGED pkgFile
    /\ UNCHANGED modelRun

\* The sub-steps of the rollback of a failed deploy the environment may fail.
DelStagesOf(arch) == IF arch = "win" THEN DelStages ELSE {"none"}

\* A command on the control topic together with what the environment does to
\* the steps it runs.
Request(m, env) == [m |-> m, env |-> env]

\* bash commands: no command text, reboot, any other command line.
BashRequests(requestId) ==
    {Request(CmdControl(requestId, "bash", "", [NoInfo EXCEPT !.Cmd = t[1]]),
             [NoEnv EXCEPT !.bashFail = t[2]]) :
       t \in {t \in {"", "reboot", "ls"} \X BOOLEAN : t[1] = "" => ~t[2]}}

\* systemd commands: <<command, service, systemctl fails>>.
SystemdRequests(requestId) ==
    {Request(CmdControl(requestId, "systemd", "",
                        [NoInfo EXCEPT !.Cmd = t[1], !.Service = t[2]]),
             [NoEnv EXCEPT !.bashFail = t[3]]) :
       t \in {t \in {"", "restart", "reboot"} \X {"", "svc"} \X BOOLEAN :
                (t[1] = "" \/ t[2] = "") => ~t[3]}}

\* virtualEnv commands: <<sub-command, name, binary file, failing step>>.
VenvRequests(requestId) ==
    {Request(CmdControl(requestId, "virtualEnv", t[1],
                        [NoInfo EXCEPT !.VenvName = t[2], !.BinFile = t[3]]),
             [NoEnv EXCEPT !.stage = t[4]]) :
       t \in {t \in {"venvCreate", "venvDelete"} \X (VenvNames \cup {""})
                      \X {"", "python3"} \X {"none", "venvCreate", "venvPkg"} :
                /\ (t[1] = "venvDelete" \/ t[3] = "" \/ t[2] = "") => t[4] = "none"
                /\ (t[1] = "venvDelete" \/ t[2] = "") => t[3] = ""}}

\* deploy/appDeploy of one application: <<name, id, url, failing step,
\* failing step of the rollback>>.  A rollback step fails only where a
\* deployment step failed before it, an environment step only for an
\* artifact that asks for an environment, and the old artifact comes as
\* application a/1.
DeployRequests(requestId, arch) ==
    {Request(CmdControl(requestId, "deploy", "appDeploy",
                        [NoInfo EXCEPT !.AppName = t[1], !.AppId = t[2],
                                       !.FileUrl = t[3]]),
             [NoEnv EXCEPT !.stage = t[4], !.delStage = t[5]]) :
       t \in {t \in AppNames \X AppIds \X FileUrls
                      \X (Stages \ {"weight", "enable"})
                      \X (DelStagesOf(arch) \ {"remove", "rmdir"}) :
                /\ t[5] # "none" => t[4] # "none"
                /\ t[3] = "u-go" => t[4] \notin {"venvCreate", "venvPkg"}
                /\ t[3] = "u-old" => (t[1] = "a" /\ t[2] = "1")}}

\* deploy/appDeploy of application a/1 without a file URL and without an
\* image: "apps" absent from the message, or present and empty.
EmptyDeployRequests(requestId) ==
    {Request(CmdControl(requestId, "deploy", "appDeploy",
                        [NoInfo EXCEPT !.AppName = "a", !.AppId = "1",
                                       !.AppsNil = nil]),
             NoEnv) : nil \in BOOLEAN}

\* One member of a group deploy's list.
InferenceApp(appName, appId) ==
    [AppName |-> appName, AppId |-> appId, FileUrl |-> "u-py", VenvName |-> "",
     AppType |-> IF appName = "a" THEN "INFERENCE" ELSE "REQUEST"]

\* The application lists of group deploys: 1..MaxApps members with one id.
AppLists(appId) ==
    UNION {[1..n -> {InferenceApp(a, appId) : a \in AppNames}] : n \in 1..MaxApps}

GroupStages == {"download", "weight", "pid"}

\* deploy/appDeploy of a list: <<list, group id, index of the member that
\* fails, failing step>>.
GroupDeployRequests(requestId) ==
    {Request(CmdControl(requestId, "deploy", "appDeploy",
                        [NoInfo EXCEPT !.Apps = t[1], !.AppsNil = FALSE,
                                       !.AppGroupId = t[2],
                                       !.AppName = t[1][1].AppName]),
             [NoEnv EXCEPT !.stage = t[4], !.failIdx = t[3]]) :
       t \in {t \in AppLists("1") \X GroupIds \X (0..MaxApps)
                      \X (GroupStages \cup {"none"}) :
                /\ t[3] <= Len(t[1])
                /\ (t[3] = 0) <=> (t[4] = "none")}}

\* deploy/appDelete: <<name, id, group id, failing step>>.
AppDeleteRequests(requestId, arch) ==
    {Request(CmdControl(requestId, "deploy", "appDelete",
                        [NoInfo EXCEPT !.AppName = t[1], !.AppId = t[2],
                                       !.AppGroupId = t[3]]),
             [NoEnv EXCEPT !.delStage = t[4]]) :
       t \in {t \in (AppNames \cup {""}) \X AppIds \X GroupIds \X DelStages :
                /\ t[3] # "" => (t[1] = "" /\ t[2] = "1" /\ t[4] = "none")
                /\ t[1] = "" => (t[2] = "1" /\ t[4] = "none")}}
    \cup {Request(CmdControl(requestId, "deploy", "appDelete",
                            [NoInfo EXCEPT !.AppGroupId = "g",
                                           !.Apps = <<InferenceApp("b", "1")>>,
                                           !.AppsNil = FALSE]),
                 NoEnv)}

\* docker commands: <<sub-command, name, id, image, failing step>>.
DockerRequests(requestId) ==
    {Request(CmdControl(requestId, "docker", t[1],
                        [NoInfo EXCEPT !.AppName = t[2], !.AppId = t[3],
                                       !.Image = t[4]]),
             [NoEnv EXCEPT !.dockerStage = t[5]]) :
       t \in {t \in {"appDeploy", "appDelete"} \X AppNames \X AppIds
                      \X {"", "img"} \X DockerStages :
                /\ t[4] = "" => (t[1] = "appDeploy" /\ t[3] = "1" /\ t[5] = "none")
                /\ t[1] = "appDelete" => t[5] \in {"none", "create"}}}

\* Commands one of whose publications fails: <<the publication, the command>>
\* for a bash command and a deploy of application a/1.
PubFailRequests(requestId) ==
    {Request(CmdControl(requestId, t[2], IF t[2] = "deploy" THEN "appDeploy" ELSE "",
                        IF t[2] = "deploy"
                        THEN [NoInfo EXCEPT !.AppName = "a", !.AppId = "1",
                                            !.FileUrl = "u-py"]
                        ELSE [NoInfo EXCEPT !.Cmd = "ls"]),
             [NoEnv EXCEPT !.pubFail = t[1]]) :
       t \in {"ack", "result"} \X {"bash", "deploy"}}

\* json.Unmarshal of cmdInfo into the struct of the command type.  bad names
\* what does not fit: "all" when cmdInfo is no JSON object (nothing is
\* decoded), a field when its value has the wrong JSON type (that field keeps
\* its zero value, the others are decoded); either way an error is returned,
\* which Control only logs.
Unmarshal(cmdInfo, bad) ==
    IF bad = "none" THEN cmdInfo
    ELSE IF bad = "all" THEN NoInfo
    ELSE [cmdInfo EXCEPT ![bad] = NoInfo[bad]]

\* Commands whose cmdInfo does not decode into the shape of the command
\* type, an empty config command and a config patch of config.json of an
\* application that was never deployed: <<type, sub-command, name, id, cmd,
\* what does not fit>>.
UndecodableRequests(requestId) ==
    {Request(CmdControl(requestId, t[1], t[2],
                        Unmarshal([NoInfo EXCEPT
                                     !.AppName = t[3], !.AppId = t[4],
                                     !.Cmd = t[5],
                                     !.Service = IF t[1] = "systemd" THEN "svc" ELSE "",
                                     !.Image = IF t[1] = "docker" THEN "img" ELSE "",
                                     !.VenvName = IF t[1] = "virtualEnv" THEN "v" ELSE "",
                                     !.BinFile = IF t[1] = "virtualEnv" THEN "python3"
                                                 ELSE "",
                                     !.FileUrl = IF t[1] = "deploy" THEN "u-py" ELSE "",
                                     !.FileName = IF t[1] = "config" /\ t[3] # ""
                                                  THEN "config.json" ELSE ""],
                                  t[6])),
             [NoEnv EXCEPT !.bad = t[6]]) :
       t \in {<<"bash", "", "", "", "ls", "all">>,
              <<"systemd", "", "", "", "restart", "all">>,
              <<"docker", "appDeploy", "a", "1", "", "all">>,
              <<"virtualEnv", "venvCreate", "", "", "", "all">>,
              <<"deploy", "appDeploy", "a", "1", "", "all">>,
              <<"deploy", "appDeploy", "a", "1", "", "VenvName">>,
              <<"config", "configFix", "", "", "", "all">>,
              <<"config", "configFix", "", "", "", "none">>,
              <<"config", "configFix", "z", "1", "", "none">>}}

\* A command type Control has no case for, and sub-commands the deploy and
\* virtualEnv cases have no branch for.
UnknownRequests(requestId) ==
    {Request(CmdControl(requestId, "pid", "", NoInfo), NoEnv),
     Request(CmdControl(requestId, "deploy", "appRestart",
                        [NoInfo EXCEPT !.AppName = "a", !.AppId = "1"]), NoEnv),
     Request(CmdControl(requestId, "virtualEnv", "venvList",
                        [NoInfo EXCEPT !.VenvName = "v"]), NoEnv)}

Requests(requestId, arch) ==
    BashRequests(requestId) \cup SystemdRequests(requestId)
      \cup VenvRequests(requestId) \cup EmptyDeployRequests(requestId)
      \cup DeployRequests(requestId, arch) \cup GroupDeployRequests(requestId)
      \cup AppDeleteRequests(requestId, arch) \cup DockerRequests(requestId)
      \cup UnknownRequests(requestId) \cup PubFailRequests(requestId)
      \cup UndecodableRequests(requestId)

\* A command arrives on the control topic and SubMessage handles it.
RecvCommand ==
    /\ procUp
    /\ nextReq <= MaxCmds
    /\ starts + nextReq <= MaxEvents
    /\ \E req \in Requests(nextReq, archType) : SubMessage(req.m, req.env)

\* ---------------------------------------------------------------- RunBody
\* The result RunBody publishes for a reboot that completed.
RebootResult(requestId, proc) ==
    [kind |-> "result", proc |-> proc, RequestId |-> requestId, hasResult |-> TRUE,
     SubCommand |-> "reboot", Results |-> <<>>, Succeed |-> 1,
     StatusCode |-> StatusOK]

\* The runtime-info message RunBody publishes on the runtime topic at every
\* start (it answers no request).
RuntimeMsg(proc) ==
    [kind |-> "runtime", proc |-> proc, RequestId |-> -1, hasResult |-> FALSE,
     SubCommand |-> "", Results |-> <<>>, Succeed |-> 1, StatusCode |-> 0]

\* A RunBody that sends the runtime info ahead of the reboot result.
StartupRuntimeFirst(reboot, runtime) == runtime \o reboot

\* What RunBody puts on the broker before it subscribes, in order: the
\* deferred reboot result (if the marker was set), then the runtime info.
Startup(reboot, runtime) == reboot \o runtime

\* A RunBody that leaves the marker as it found it.
KeepMarker(d, arch) == d

\* RunBody, after the reboot result went out: sdtConfig.Rebooting("completed", "").
ClearMarker(d, arch) == Rebooting(d, arch, "completed", 0).d

\* RunBody: read config.json, connect, settle a pending reboot, send the
\* runtime info, provide the base environment (its python -m venv taken to
\* succeed), subscribe.
RunBody ==
    /\ ~procUp
    /\ starts < MaxStarts
    /\ starts + nextReq <= MaxEvents
    /\ procUp' = TRUE
    /\ starts' = starts + 1
    /\ configData' = configFile
    /\ LET pending == configFile.Reboot = "rebooting"
           d1 == IF pending THEN ClearMarker(Disk, archType) ELSE Disk
           d2 == [d1 EXCEPT !.venvs = @ \cup {"base"}]
       IN /\ SetDisk(d2)
          /\ published' = published \o
                   Startup(IF pending
                           THEN <<RebootResult(configFile.RequestId, starts + 1)>>
                           ELSE <<>>,
                           <<RuntimeMsg(starts + 1)>>)
          /\ last' = [op |-> "start", m |-> NoCmd, env |-> NoEnv, pre |-> Disk,
                      result |-> NoResult, downloaded |-> FALSE, sent |-> pending]
    /\ UNCHANGED <<archType, nextReq, rebootReqs>>
    /\ UNCHANGED patchVars
    /\ UNCHANGED regVars
    /\ UNCHANGED pkgFile
    /\ UNCHANGED modelRun

\* The process ends: the device reboots, the service is restarted, os.Exit.
Exit ==
    /\ procUp
    /\ procUp' = FALSE
    /\ last' = [op |-> "exit", m |-> NoCmd, env |-> NoEnv, pre |-> Disk,
                result |-> NoResult, downloaded |-> FALSE, sent |-> FALSE]
    /\ UNCHANGED <<archType, starts, configData, configFile, appInfoFile, appDirs,
                   venvDirs, svcUnits, svcEnabled, containers, published, nextReq,
                   rebootReqs>>
    /\ UNCHANGED patchVars
    /\ UNCHANGED regVars
    /\ UNCHANGED pkgFile
    /\ UNCHANGED modelRun

\* ------------------------------------------------- JsonChange on its own
NoFile == [exists |-> FALSE, doc |-> NoMap]

NoConfigCmd == [hasParameter |-> FALSE, FileName |-> "", Parameter |-> NoMap,
                order |-> <<>>]

NoPatch == [called |-> FALSE, configCmd |-> NoConfigCmd, pre |-> NoFile,
            err |-> NoErr, statusCode |-> 0, panic |-> FALSE]

\* The values a target document holds under a key: a string, an integer
\* literal, decimal literals, a nested map of one key.
TargetLeaves == {JStr("str"), JNum(3, <<>>), JNum(3, <<5>>), JNum(3, <<0>>)}

TargetValues ==
    TargetLeaves \cup {JMap([k \in {"k"} |-> v]) : v \in TargetLeaves}
      \cup {[JNil EXCEPT !.kind = kind] : kind \in {"null", "bool"}}

\* The documents over the keys "n" and "x".
TargetDocs ==
    UNION {[K -> TargetValues] : K \in SUBSET {"n", "x"}}

\* The values a patch carries (7, 7.5, 7.25 as float64), and the patches over
\* the keys "n", "x" and "z" (a key no target has), one of them with a nested
\* key "q" no nested map has.
PatchLeaves == {JStr("s"), JF64(700), JF64(750), JF64(725)}

PatchValues ==
    PatchLeaves \cup {JMap([k \in {"k"} |-> v]) : v \in {JStr("s"), JF64(700)}}
      \cup {[JNil EXCEPT !.kind = kind] : kind \in {"null", "bool", "array"}}

Patches ==
    UNION {[K -> PatchValues] : K \in SUBSET {"n", "x"}}
      \cup {[k \in {"n", "z"} |-> JF64(700)], [k \in {"z"} |-> JStr("s")],
            [k \in {"n", "z"} |-> IF k = "n" THEN JMap([q \in {"k", "q"} |-> JStr("s")])
                                  ELSE JStr("s")]}

\* The agent side at rest while the patch engine is looked at on its own.
AgentIdle ==
    /\ archType = "linux"
    /\ procUp = FALSE
    /\ starts = 0
    /\ configData = [Reboot |-> "", RequestId |-> 0]
    /\ configFile = [Reboot |-> "", RequestId |-> 0]
    /\ appInfoFile = [exists |-> FALSE, list |-> <<>>]
    /\ appDirs = {}
    /\ venvDirs = {}
    /\ svcUnits = {}
    /\ svcEnabled = {}
    /\ containers = {}
    /\ published = <<>>
    /\ nextReq = 1
    /\ rebootReqs = {}
    /\ last = [op |-> "none", m |-> NoCmd, env |-> NoEnv, pre |-> Disk,
               result |-> NoResult, downloaded |-> FALSE, sent |-> FALSE]

PatchInit ==
    /\ AgentIdle
    /\ jsonFile \in {NoFile} \cup {[exists |-> TRUE, doc |-> doc] : doc \in TargetDocs}
    /\ patchCalls = 0
    /\ patchLast = NoPatch
    /\ regFile = [exists |-> FALSE, whole |-> TRUE, list |-> <<>>]
    /\ regOps = <<>>
    /\ regUp = FALSE
    /\ regSeen = "none"
    /\ pkgFile = NoPkgFile
    /\ modelRun = NoModelRun

\* One call of JsonChange with a parameter map, the range over it taking any
\* order.
PatchFile ==
    /\ patchCalls < MaxPatches
    /\ \E param \in Patches :
         \E order \in Orders(DOMAIN param) :
           LET configCmd == [hasParameter |-> TRUE, FileName |-> "config.json",
                             Parameter |-> param, order |-> order]
               r == JsonChange(jsonFile, configCmd)
           IN /\ jsonFile' = r.file
              /\ patchLast' = [called |-> TRUE, configCmd |-> configCmd,
                               pre |-> jsonFile, err |-> r.err,
                               statusCode |-> r.statusCode, panic |-> r.panic]
    /\ patchCalls' = patchCalls + 1
    /\ UNCHANGED agentVars
    /\ UNCHANGED regVars
    /\ UNCHANGED pkgFile
    /\ UNCHANGED modelRun

\* One call of JsonChange without a parameter map or without a file name.
PatchNothing ==
    /\ patchCalls < MaxPatches
    /\ \E hasParameter \in BOOLEAN, fileName \in {"", "config.json"} :
         /\ ~hasParameter \/ fileName = ""
         /\ LET configCmd == [hasParameter |-> hasParameter, FileName |-> fileName,
                              Parameter |-> NoMap, order |-> <<>>]
                r == JsonChange(jsonFile, configCmd)
            IN /\ jsonFile' = r.file
               /\ patchLast' = [called |-> TRUE, configCmd |-> configCmd,
                                pre |-> jsonFile, err |-> r.err,
                                statusCode |-> r.statusCode, panic |-> r.panic]
    /\ patchCalls' = patchCalls + 1
    /\ UNCHANGED agentVars
    /\ UNCHANGED regVars
    /\ UNCHANGED pkgFile
    /\ UNCHANGED modelRun

PatchNext == PatchFile \/ PatchNothing

PatchSpec == PatchInit /\ [][PatchNext]_vars

\* ------------------------------------------------------- the agent process
Init ==
    /\ archType \in ArchTypes
    /\ procUp = FALSE
    /\ starts = 0
    /\ configData = [Reboot |-> "", RequestId |-> 0]
    /\ configFile = [Reboot |-> "", RequestId |-> 0]
    /\ appInfoFile = [exists |-> FALSE, list |-> <<>>]
    /\ appDirs = {}
    /\ venvDirs = {}
    /\ svcUnits = {}
    /\ svcEnabled = {}
    /\ containers = {}
    /\ published = <<>>
    /\ nextReq = 1
    /\ rebootReqs = {}
    /\ last = [op |-> "none", m |-> NoCmd, env |-> NoEnv, pre |-> Disk,
               result |-> NoResult, downloaded |-> FALSE, sent |-> FALSE]
    /\ jsonFile = NoFile
    /\ patchCalls = 0
    /\ patchLast = NoPatch
    /\ regFile = [exists |-> FALSE, whole |-> TRUE, list |-> <<>>]
    /\ regOps = <<>>
    /\ regUp = FALSE
    /\ regSeen = "none"
    /\ pkgFile = NoPkgFile
    /\ modelRun = NoModelRun

Next ==
    \/ RunBody
    \/ Exit
    \/ RecvMalformed
    \/ RecvCommand

Spec == Init /\ [][Next]_vars

\* ------------------------------------ the registry file, one step at a time
\* The Application Registry as the file system holds it.  ioutil.WriteFile
\* opens the file with O_TRUNC and then writes the bytes: between the two the
\* file exists with length zero, which json.Unmarshal rejects.
NoRegFile == [exists |-> FALSE, whole |-> TRUE, list |-> <<>>]
TornRegFile == [exists |-> TRUE, whole |-> FALSE, list |-> <<>>]
WholeRegFile(list) == [exists |-> TRUE, whole |-> TRUE, list |-> list]

\* A registry operation of a command: Deploy adds a name (CheckExistApp, then
\* SaveAppInfo), Delete removes one (DeleteAppInfo).
RegKinds == {"add", "del"}
RegOp(kind, name) ==
    [kind |-> kind, name |-> name, pc |-> "wait", buf |-> <<>>, readErr |-> FALSE]

\* Positions of a handler between the file system calls of its operation.
\*   wait    : the message arrived and is queued in the client
\*   check   : Deploy before CheckExistApp
\*   save    : Deploy before SaveAppInfo reads the file
\*   read    : Delete before DeleteAppInfo reads the file
\*   trunc   : before WriteFile opens (creates or truncates) the file
\*   write   : before WriteFile writes the bytes
\*   done    : returned after writing
\*   ret     : returned without writing
\*   exit    : the handler called os.Exit(1)
\*   dead    : the process ended while the handler was running
\*   dropped : the process ended while the message was queued
RegRunning == {"check", "save", "read", "trunc", "write"}

RegNames(list) == {list[k] : k \in DOMAIN list}
RegWithout(list, name) == SelectSeq(list, LAMBDA n : n # name)

\* The client hands a message to the handler only when the handler of every
\* earlier message has returned: the options are the library's defaults, the
\* handler starts no goroutine, and the router calls it synchronously.
CanDispatchAny(ops, i) == TRUE
CanDispatch(ops, i) ==
    \A j \in DOMAIN ops :
       j # i => /\ ops[j].pc \notin RegRunning
                /\ (j < i => ops[j].pc # "wait")

\* What becomes of the handlers and queued messages when the process ends.
RegEnded(ops, i, pc) ==
    [j \in DOMAIN ops |->
       IF j = i THEN [ops[j] EXCEPT !.pc = pc]
       ELSE IF ops[j].pc \in RegRunning THEN [ops[j] EXCEPT !.pc = "dead"]
       ELSE IF ops[j].pc = "wait" THEN [ops[j] EXCEPT !.pc = "dropped"]
       ELSE ops[j]]

\* A command arrives on the subscribed topic.
RegArrive ==
    /\ regUp
    /\ Len(regOps) < MaxRegOps
    /\ \E kind \in RegKinds, name \in AppNames :
         regOps' = Append(regOps, RegOp(kind, name))
    /\ UNCHANGED <<regFile, regUp, regSeen>>
    /\ UNCHANGED agentVars
    /\ UNCHANGED patchVars
    /\ UNCHANGED pkgFile
    /\ UNCHANGED modelRun

\* The client calls SubMessage for a queued message; Control reaches Deploy
\* or Delete.
RegDispatch ==
    /\ regUp
    /\ \E i \in DOMAIN regOps :
         /\ regOps[i].pc = "wait"
         /\ CanDispatch(regOps, i)
         /\ regOps' = [regOps EXCEPT ![i].pc = IF regOps[i].kind = "add"
                                               THEN "check" ELSE "read"]
    /\ UNCHANGED <<regFile, regUp, regSeen>>
    /\ UNCHANGED agentVars
    /\ UNCHANGED patchVars
    /\ UNCHANGED pkgFile
    /\ UNCHANGED modelRun

\* CheckExistApp: false when the file is missing, os.Exit(1) when it cannot
\* be parsed, else whether the name is recorded (Deploy then refuses).
RegCheckExistApp ==
    /\ regUp
    /\ \E i \in DOMAIN regOps :
         /\ regOps[i].pc = "check"
         /\ IF regFile.exists /\ ~regFile.whole
            THEN /\ regOps' = RegEnded(regOps, i, "exit")
                 /\ regUp' = FALSE
            ELSE /\ regOps' = [regOps EXCEPT ![i].pc =
                                  IF regOps[i].name \in RegNames(regFile.list)
                                  THEN "ret" ELSE "save"]
                 /\ regUp' = regUp
    /\ UNCHANGED <<regFile, regSeen>>
    /\ UNCHANGED agentVars
    /\ UNCHANGED patchVars
    /\ UNCHANGED pkgFile
    /\ UNCHANGED modelRun

\* SaveAppInfo up to WriteFile: a one-record list when the file is missing;
\* else the decoded list with the record appended.  An error of ReadFile
\* (readErr, the environment's choice on an existing file) and an error of
\* Unmarshal are only logged: the list is then empty.
RegSaveAppInfo ==
    /\ regUp
    /\ \E i \in DOMAIN regOps :
         /\ regOps[i].pc = "save"
         /\ \E readErr \in {FALSE, regFile.exists /\ regFile.whole} :
              regOps' = [regOps EXCEPT
                           ![i].pc = "trunc",
                           ![i].readErr = readErr,
                           ![i].buf = IF regFile.exists /\ regFile.whole /\ ~readErr
                                      THEN Append(regFile.list, regOps[i].name)
                                      ELSE <<regOps[i].name>>]
    /\ UNCHANGED <<regFile, regUp, regSeen>>
    /\ UNCHANGED agentVars
    /\ UNCHANGED patchVars
    /\ UNCHANGED pkgFile
    /\ UNCHANGED modelRun

\* DeleteAppInfo up to WriteFile: returns when the file cannot be read or
\* parsed, else keeps the records of the other names.
RegDeleteAppInfo ==
    /\ regUp
    /\ \E i \in DOMAIN regOps :
         /\ regOps[i].pc = "read"
         /\ regOps' = IF regFile.exists /\ regFile.whole
                      THEN [regOps EXCEPT
                              ![i].pc = "trunc",
                              ![i].buf = RegWithout(regFile.list, regOps[i].name)]
                      ELSE [regOps EXCEPT ![i].pc = "ret"]
    /\ UNCHANGED <<regFile, regUp, regSeen>>
    /\ UNCHANGED agentVars
    /\ UNCHANGED patchVars
    /\ UNCHANGED pkgFile
    /\ UNCHANGED modelRun

\* ioutil.WriteFile, first half: OpenFile with O_WRONLY|O_CREATE|O_TRUNC.
RegTruncate ==
    /\ regUp
    /\ \E i \in DOMAIN regOps :
         /\ regOps[i].pc = "trunc"
         /\ regOps' = [regOps EXCEPT ![i].pc = "write"]
    /\ regFile' = TornRegFile
    /\ UNCHANGED <<regUp, regSeen>>
    /\ UNCHANGED agentVars
    /\ UNCHANGED patchVars
    /\ UNCHANGED pkgFile
    /\ UNCHANGED modelRun

\* ioutil.WriteFile, second half: Write and Close.
RegWrite ==
    /\ regUp
    /\ \E i \in DOMAIN regOps :
         /\ regOps[i].pc = "write"
         /\ regFile' = WholeRegFile(regOps[i].buf)
         /\ regOps' = [regOps EXCEPT ![i].pc = "done"]
    /\ UNCHANGED <<regUp, regSeen>>
    /\ UNCHANGED agentVars
    /\ UNCHANGED patchVars
    /\ UNCHANGED pkgFile
    /\ UNCHANGED modelRun

\* The connection-lost handler runs on the client's own goroutine and calls
\* os.Exit(1), wherever the command handler is.
RegConnectionLost ==
    /\ regUp
    /\ regOps' = RegEnded(regOps, 0, "dead")
    /\ regUp' = FALSE
    /\ UNCHANGED <<regFile, regSeen>>
    /\ UNCHANGED agentVars
    /\ UNCHANGED patchVars
    /\ UNCHANGED pkgFile
    /\ UNCHANGED modelRun

\* The service manager starts the process again; RunBody subscribes.
RegRunBody ==
    /\ ~regUp
    /\ regUp' = TRUE
    /\ UNCHANGED <<regFile, regOps, regSeen>>
    /\ UNCHANGED agentVars
    /\ UNCHANGED patchVars
    /\ UNCHANGED pkgFile
    /\ UNCHANGED modelRun

\* The process checker reads the registry file on its 5 s tick: a missing
\* file is skipped, a file that does not parse ends its loop.
CheckerRead ==
    /\ regSeen # "torn"
    /\ regSeen' = IF ~regFile.exists THEN "missing"
                  ELSE IF regFile.whole THEN "whole" ELSE "torn"
    /\ UNCHANGED <<regFile, regOps, regUp>>
    /\ UNCHANGED agentVars
    /\ UNCHANGED patchVars
    /\ UNCHANGED pkgFile
    /\ UNCHANGED modelRun

RegInit ==
    /\ AgentIdle
    /\ jsonFile = NoFile
    /\ patchCalls = 0
    /\ patchLast = NoPatch
    /\ regFile = NoRegFile
    /\ regOps = <<>>
    /\ regUp = TRUE
    /\ regSeen = "none"
    /\ pkgFile = NoPkgFile
    /\ modelRun = NoModelRun

RegNext ==
    \/ RegArrive
    \/ RegDispatch
    \/ RegCheckExistApp
    \/ RegSaveAppInfo
    \/ RegDeleteAppInfo
    \/ RegTruncate
    \/ RegWrite
    \/ RegConnectionLost
    \/ RegRunBody
    \/ CheckerRead

RegSpec == RegInit /\ [][RegNext]_vars

\* ------------------------------------------ the requirements file of a venv
\* The characters a package list is made of: a package character, the space,
\* the comment and uninstall markers, the line feed and the tab.
ReqChars == {"p", " ", "#", "-", "\n", "\t"}

\* strings.Split(s, sep): the pieces of s between the separators, empty
\* pieces included; a string without separator is its own single piece.
RECURSIVE Split(_, _)
Split(s, sep) ==
    IF \A i \in 1..Len(s) : s[i] # sep THEN <<s>>
    ELSE LET i == CHOOSE k \in 1..Len(s) :
                    s[k] = sep /\ \A j \in 1..(k - 1) : s[j] # sep
         IN <<SubSeq(s, 1, i - 1)>> \o Split(SubSeq(s, i + 1, Len(s)), sep)

\* The loop of CreateVenv (update = FALSE) and UpdateVenv (update = TRUE) over
\* the lines of the package list.  checkString is the line without its spaces;
\* an empty line is skipped before checkString[0] is read, a line of spaces
\* only is not: reading checkString[0] of the empty string is out of range.
\* A line whose checkString starts with # is skipped; in an update a line
\* whose checkString starts with - is uninstalled (its - removed) and not
\* written; every other line is written with a line feed.
RECURSIVE WriteRequirements(_, _, _)
WriteRequirements(pkgString, update, acc) ==
    IF pkgString = <<>> THEN acc
    ELSE LET vals == Head(pkgString)
             checkString == SelectSeq(vals, LAMBDA c : c # " ")
         IN IF Len(vals) = 0
            THEN WriteRequirements(Tail(pkgString), update, acc)
            ELSE IF checkString = <<>>
            THEN [acc EXCEPT !.panic = TRUE]
            ELSE IF checkString[1] = "#"
            THEN WriteRequirements(Tail(pkgString), update, acc)
            ELSE IF update /\ checkString[1] = "-"
            THEN WriteRequirements(Tail(pkgString), update,
                   [acc EXCEPT !.uninstalled =
                      Append(@, SelectSeq(vals, LAMBDA c : c # "-"))])
            ELSE WriteRequirements(Tail(pkgString), update,
                   [acc EXCEPT !.lines = Append(@, vals)])

\* CreateVenv called by Control (appDir = ""): conda create (stage venvCreate
\* fails it: 400 before the file is made), os.Create of requirements.txt, the
\* loop, pip install -r (stage venvPkg fails it: 400).
RunCreateVenv ==
    /\ pkgFile.op = "none"
    /\ \E stage \in {"none", "venvCreate", "venvPkg"} :
         IF stage = "venvCreate"
         THEN pkgFile' = [pkgFile EXCEPT !.op = "venvCreate", !.stage = stage,
                                         !.statusCode = StatusBadRequest]
         ELSE LET w == WriteRequirements(Split(pkgFile.Requirement, "\n"), FALSE,
                                         [pkgFile EXCEPT !.exists = TRUE])
              IN pkgFile' = [w EXCEPT !.op = "venvCreate", !.stage = stage,
                                      !.statusCode =
                                         IF w.panic THEN 0
                                         ELSE IF stage = "venvPkg"
                                         THEN StatusBadRequest ELSE StatusOK]
    /\ UNCHANGED agentVars
    /\ UNCHANGED patchVars
    /\ UNCHANGED regVars
    /\ UNCHANGED modelRun

\* UpdateVenv: os.Create of requirements.txt (stage venvCreate fails it, the
\* environment's directory being absent: 400), the loop with its uninstalls,
\* pip install -r (stage venvPkg fails it: 400).
RunUpdateVenv ==
    /\ pkgFile.op = "none"
    /\ \E stage \in {"none", "venvCreate", "venvPkg"} :
         IF stage = "venvCreate"
         THEN pkgFile' = [pkgFile EXCEPT !.op = "venvUpdate", !.stage = stage,
                                         !.statusCode = StatusBadRequest]
         ELSE LET w == WriteRequirements(Split(pkgFile.Requirement, "\n"), TRUE,
                                         [pkgFile EXCEPT !.exists = TRUE])
              IN pkgFile' = [w EXCEPT !.op = "venvUpdate", !.stage = stage,
                                      !.statusCode =
                                         IF w.panic THEN 0
                                         ELSE IF stage = "venvPkg"
                                         THEN StatusBadRequest ELSE StatusOK]
    /\ UNCHANGED agentVars
    /\ UNCHANGED patchVars
    /\ UNCHANGED regVars
    /\ UNCHANGED modelRun

\* A virtualEnv command arrives with any package list of up to MaxReqLen
\* characters.
VenvInit ==
    /\ AgentIdle
    /\ jsonFile = NoFile
    /\ patchCalls = 0
    /\ patchLast = NoPatch
    /\ regFile = [exists |-> FALSE, whole |-> TRUE, list |-> <<>>]
    /\ regOps = <<>>
    /\ regUp = FALSE
    /\ regSeen = "none"
    /\ \E n \in 0..MaxReqLen :
         \E req \in [1..n -> ReqChars] :
            pkgFile = [NoPkgFile EXCEPT !.Requirement = req]
    /\ modelRun = NoModelRun

VenvNext == RunCreateVenv \/ RunUpdateVenv

VenvSpec == VenvInit /\ [][VenvNext]_vars

\* ------------------------------------------------------- the model update
\* Update's walk along strings.Split(modelFileKey, ".") through the parameter
\* map: every key but the last is asserted to hold a map, the last a string.
\* An absent key reads as the nil interface; a failed assertion panics.
RECURSIVE ModelFileName(_, _)
ModelFileName(keys, fileDict) ==
    LET key == IF keys[1] = <<>> THEN "" ELSE keys[1][1]
        held == key \in DOMAIN fileDict
    IN IF Len(keys) = 1
       THEN ~(held /\ fileDict[key].kind = "string")
       ELSE IF held /\ fileDict[key].kind = "map"
       THEN ModelFileName(Tail(keys), fileDict[key].map)
       ELSE TRUE

\* Update: Stop, the model file name, DownloadWeight_new, JsonChange of
\* config.json, GetConfig, Start; `stage` is the step the environment fails
\* (pid: systemctl start went through, GetPid failed).  ModelFileName tells
\* whether the walk panics.
Update(run, stage) ==
    LET did(steps) == [run EXCEPT !.op = "update", !.stage = stage,
                                  !.steps = steps,
                                  !.running = IF Len(steps) > 1 THEN FALSE ELSE @]
        failed(r) == [r EXCEPT !.err = TRUE, !.statusCode = StatusBadRequest]
    IN IF stage = "stop" THEN failed(did(<<"stop">>))
       ELSE IF run.ModelFileKey = <<>> THEN failed(did(<<"stop", "key">>))
       ELSE IF ModelFileName(Split(run.ModelFileKey, "."), run.Parameter)
       THEN [did(<<"stop", "key">>) EXCEPT !.panic = TRUE]
       ELSE IF stage = "download" THEN failed(did(<<"stop", "key", "download">>))
       ELSE IF stage \in {"patch", "config"}
       THEN failed(did(<<"stop", "key", "download", "patch">>))
       ELSE IF stage = "start"
       THEN failed(did(<<"stop", "key", "download", "patch", "start">>))
       ELSE LET started == [did(<<"stop", "key", "download", "patch", "start">>)
                              EXCEPT !.running = TRUE]
            IN IF stage = "pid" THEN failed(started)
               ELSE [started EXCEPT !.statusCode = StatusOK]

\* Control, case "model", sub-command update.
RunUpdate ==
    /\ modelRun.op = "none"
    /\ \E stage \in {"none", "stop", "download", "patch", "config", "start", "pid"} :
         modelRun' = Update(modelRun, stage)
    /\ UNCHANGED agentVars
    /\ UNCHANGED patchVars
    /\ UNCHANGED regVars
    /\ UNCHANGED pkgFile

\* A model command arrives for an application whose service runs or not.
ModelInit ==
    /\ AgentIdle
    /\ jsonFile = NoFile
    /\ patchCalls = 0
    /\ patchLast = NoPatch
    /\ regFile = [exists |-> FALSE, whole |-> TRUE, list |-> <<>>]
    /\ regOps = <<>>
    /\ regUp = FALSE
    /\ regSeen = "none"
    /\ pkgFile = NoPkgFile
    /\ \E key \in {<<>>, <<"w">>, <<"m", ".", "w">>, <<"m">>, <<"m", ".">>},
          param \in {NoMap,
                     [k \in {"w"} |-> JStr("f")],
                     [k \in {"w"} |-> JNum(1, <<>>)],
                     [k \in {"m"} |-> JMap([q \in {"w"} |-> JStr("f")])],
                     [k \in {"m"} |-> JStr("f")]},
          running \in BOOLEAN :
         modelRun = [NoModelRun EXCEPT !.ModelFileKey = key, !.Parameter = param,
                                       !.running = running]

ModelSpec == ModelInit /\ [][RunUpdate]_vars

\* ================================================================ properties
\* Shorthands over the last command handled.
LastIs(cmdType, subCmdType) ==
    /\ last.op = "cmd"
    /\ last.m.CmdType = cmdType
    /\ last.m.SubCmdType = subCmdType

LastSingleDeploy == LastIs("deploy", "appDeploy") /\ Len(last.m.CmdInfo.Apps) = 0

LastGroupDeploy == LastIs("deploy", "appDeploy") /\ Len(last.m.CmdInfo.Apps) > 0

\* The records of registry file f, as a set and by name.
Records(f) == {f.list[i] : i \in 1..Len(f.list)}

HasRecord(f, appName) == \E r \in Records(f) : r.AppName = appName

\* The least element of a non-empty set of numbers.
Min(S) == CHOOSE x \in S : \A y \in S : x <= y

\* The indices of the published messages of a kind for a request id.
Pubs(kind, requestId) ==
    {i \in 1..Len(published) :
        published[i].kind = kind /\ published[i].RequestId = requestId}

\* C1: the Application Registry never holds two records with the same appName,
\* whatever sequence of deploys (single, group, container) and deletes ran.
C1_RegistryUnique ==
    \A i, j \in 1..Len(appInfoFile.list) :
        i # j => appInfoFile.list[i].AppName # appInfoFile.list[j].AppName

\* C2: a single-app deploy whose appName already has a record fails with 400,
\* does not download the artifact and leaves the application directories as
\* they were.
C2_DeployGuard ==
    (LastSingleDeploy /\ HasRecord(last.pre.appInfo, last.m.CmdInfo.AppName))
        => /\ last.result.StatusCode = StatusBadRequest
           /\ ~last.downloaded
           /\ appDirs = last.pre.dirs

\* C3: a venvDelete naming an environment some Application Record references
\* fails and leaves the environment directory and the registry unchanged.
C3_VenvDeleteGuard ==
    (/\ LastIs("virtualEnv", "venvDelete")
     /\ \E r \in Records(last.pre.appInfo) : r.AppVenv = last.m.CmdInfo.VenvName)
        => /\ last.result.Succeed = 0
           /\ venvDirs = last.pre.venvs
           /\ appInfoFile = last.pre.appInfo

FirstDownloadFailure(k) ==
    /\ LastGroupDeploy
    /\ last.env.stage = "download"
    /\ last.env.failIdx = k
    /\ Len(InferenceDeploy(last.pre, last.m.CmdInfo, last.env.failIdx,
                           last.env.stage).results) = k - 1

C6_AckBeforeResult ==
    \A i \in 1..Len(published) :
        (published[i].kind = "result" /\ published[i].RequestId >= 1)
            => \E j \in 1..(i - 1) :
                   /\ published[j].kind = "ack"
                   /\ published[j].RequestId = published[i].RequestId

\* A command was acknowledged and answered.
C6_Witness ==
    /\ last.op = "cmd"
    /\ last.sent
    /\ Pubs("ack", last.m.RequestId) # {}
    /\ Pubs("result", last.m.RequestId) # {}

\* C7: the process that receives a bash command "reboot" publishes no result
\* message for its requestId.
C7_RebootNoResult ==
    \A rr \in rebootReqs :
        \A i \in Pubs("result", rr[1]) : published[i].proc # rr[2]

\* A bash "reboot" was received and acknowledged, its process still runs.
C7_Witness ==
    /\ procUp
    /\ LastIs("bash", "")
    /\ last.m.CmdInfo.Cmd = "reboot"
    /\ <<last.m.RequestId, starts>> \in rebootReqs
    /\ Pubs("ack", last.m.RequestId) # {}

Patched == patchLast.called /\ patchLast.configCmd.hasParameter /\ patchLast.pre.exists

\* C9: when a field of the target is a map and the patch carries a string for
\* it, JsonChange returns an error with statusCode 400 and the file on disk,
\* that field and every other one, is as it was.
C9_MapKeepsType ==
    \A key \in {"n", "x"} :
        (/\ Patched
         /\ key \in DOMAIN patchLast.pre.doc
         /\ key \in DOMAIN patchLast.configCmd.Parameter
         /\ patchLast.pre.doc[key].kind = "map"
         /\ patchLast.configCmd.Parameter[key].kind = "string")
            => /\ patchLast.err # NoErr
               /\ patchLast.statusCode = StatusBadRequest
               /\ jsonFile = patchLast.pre

\* A patch named a map field with a string next to a field it could have
\* changed, and came back with the error for the map field.
C9_Witness ==
    /\ Patched
    /\ DOMAIN patchLast.pre.doc = {"n", "x"}
    /\ DOMAIN patchLast.configCmd.Parameter = {"n", "x"}
    /\ patchLast.pre.doc["x"].kind = "map"
    /\ patchLast.configCmd.Parameter["x"].kind = "string"
    /\ patchLast.pre.doc["n"].kind = "number"
    /\ patchLast.configCmd.Parameter["n"].kind = "float64"
    /\ patchLast.configCmd.order = <<"n", "x">>
    /\ patchLast.err = [msg |-> "Check [%s] parameter", key |-> "x"]

\* The last JsonChange call succeeded in putting a patch number on the
\* number literal the target held under key.
NumberOnNumber(key) ==
    /\ Patched
    /\ ~patchLast.panic
    /\ patchLast.err = NoErr
    /\ key \in DOMAIN patchLast.pre.doc
    /\ key \in DOMAIN patchLast.configCmd.Parameter
    /\ patchLast.pre.doc[key].kind = "number"
    /\ patchLast.configCmd.Parameter[key].kind = "float64"

\* C10 as the specification states it: a patch number put on a number
\* literal, integer or decimal, is stored as one-decimal text (7 as 7.0).
C10_OneDecimal ==
    \A key \in {"n", "x"} :
        NumberOnNumber(key) =>
            /\ jsonFile.doc[key].kind = "number"
            /\ jsonFile.doc[key].tok = Sprintf1f(patchLast.configCmd.Parameter[key].f64)

\* C10 as the code has it: on a decimal literal (3.5, 3.0) the patch number is
\* stored as one-decimal text (7 as 7.0, 7.25 as 7.2); on an integer literal
\* (3) it is stored as encoding/json writes the number itself (7 as 7, 7.5 as
\* 7.5), without a decimal added.
C10_NumericForm ==
    \A key \in {"n", "x"} :
        NumberOnNumber(key) =>
            LET h == patchLast.configCmd.Parameter[key].f64
            IN /\ jsonFile.doc[key].kind = "number"
               /\ jsonFile.doc[key].tok =
                      IF patchLast.pre.doc[key].tok.frac = <<>>
                      THEN FormatFloat(h)
                      ELSE Sprintf1f(h)

\* Both forms on disk after patches with 7: 7.0 where the target held a
\* decimal literal, 7 where it held the integer literal 3.
C10_Witness ==
    /\ NumberOnNumber("n")
    /\ NumberOnNumber("x")
    /\ patchLast.configCmd.Parameter["n"] = JF64(700)
    /\ patchLast.configCmd.Parameter["x"] = JF64(700)
    /\ patchLast.pre.doc["n"] = JNum(3, <<>>)
    /\ patchLast.pre.doc["x"] = JNum(3, <<5>>)
    /\ jsonFile.doc["n"] = JNum(7, <<>>)
    /\ jsonFile.doc["x"] = JNum(7, <<0>>)

\* C11: a patch number put on a string field is stored as a string (the text
\* of the number); the field keeps the string type.
C11_StringKeepsType ==
    \A key \in {"n", "x"} :
        (/\ Patched
         /\ ~patchLast.panic
         /\ patchLast.err = NoErr
         /\ key \in DOMAIN patchLast.pre.doc
         /\ key \in DOMAIN patchLast.configCmd.Parameter
         /\ patchLast.pre.doc[key].kind = "string"
         /\ patchLast.configCmd.Parameter[key].kind = "float64")
            => jsonFile.doc[key].kind = "string"

\* A command was handled, to its end or to a panic.
LastHandled == last.op \in {"cmd", "panic"}

\* The command does not have the form its type asks for: a bash command
\* without text, a systemd command without text or service, a container deploy
\* without image or another container command without application name, an
\* environment creation without name or binary, an application deploy that
\* carries neither file URL nor image nor "apps", another application command
\* without application name and group id.
Malformed(m) ==
    LET i == m.CmdInfo
    IN CASE m.CmdType = "bash" -> i.Cmd = ""
         [] m.CmdType = "systemd" -> i.Cmd = "" \/ i.Service = ""
         [] m.CmdType = "docker" ->
                IF m.SubCmdType = "appDeploy" THEN i.Image = "" ELSE i.AppName = ""
         [] m.CmdType = "virtualEnv" ->
                m.SubCmdType = "venvCreate" /\ (i.VenvName = "" \/ i.BinFile = "")
         [] m.CmdType = "deploy" ->
                IF m.SubCmdType = "appDeploy"
                THEN i.FileUrl = "" /\ i.Image = "" /\ i.AppsNil
                ELSE i.AppName = "" /\ i.AppGroupId = ""
         [] OTHER -> FALSE

\* C12: a bash, systemd, docker, virtualEnv or deploy command that fails its
\* format validator is answered with succeed 0 and statusCode 400 and no
\* handler runs: nothing is fetched, nothing is published besides ack and
\* result, and registry, environments, application directories, units,
\* containers and reboot marker are as they were.
C12_FormatRejected ==
    (LastHandled /\ Malformed(last.m)) =>
        /\ last.op = "cmd"
        /\ last.result.hasResult
        /\ last.result.Succeed = 0
        /\ last.result.StatusCode = StatusBadRequest
        /\ ~last.downloaded
        /\ Disk = last.pre
        /\ \A i \in 1..Len(published) :
               published[i].kind = "self" => i < Min(Pubs("ack", last.m.RequestId))

\* A malformed container command was refused and answered while the registry
\* held a record.
C12_Witness ==
    /\ last.op = "cmd"
    /\ Malformed(last.m)
    /\ last.m.CmdType = "docker"
    /\ last.result.StatusCode = StatusBadRequest
    /\ appInfoFile.list # <<>>
    /\ last.sent

\* C13: a deploy/appDeploy command with no file URL, no image and an app list
\* that is absent or empty is answered by the format validator with statusCode
\* 400; the Deployment Engine is not entered and the disk is as it was.
C13_EmptyDeployRejected ==
    (/\ LastHandled
     /\ last.m.CmdType = "deploy"
     /\ last.m.SubCmdType = "appDeploy"
     /\ last.m.CmdInfo.FileUrl = ""
     /\ last.m.CmdInfo.Image = ""
     /\ last.m.CmdInfo.Apps = <<>>)
        => /\ last.op = "cmd"
           /\ last.result.Succeed = 0
           /\ last.result.StatusCode = StatusBadRequest
           /\ last.sent
           /\ Disk = last.pre

\* C14: a deploy/appDeploy command that succeeded (it left the application's
\* configuration in place) is followed on the broker, after its result
\* message, by a second message carrying the Config Result Envelope; no other
\* command gets one.
C14_ConfigResultSecond ==
    /\ (LastIs("deploy", "appDeploy") /\ last.result.Succeed = 1)
           => \E i \in Pubs("result", last.m.RequestId) :
                  \E j \in Pubs("config", last.m.RequestId) : i < j
    /\ \A j \in 1..Len(published) :
           published[j].kind = "config"
               => \E i \in 1..(j - 1) :
                      /\ published[i].kind = "result"
                      /\ published[i].RequestId = published[j].RequestId

\* C15: the Result Envelope of a command carries results (and no result) when
\* the command names an application group, by an app list or an appGroupId,
\* and result (and no results) otherwise.
C15_ResultShape ==
    last.op = "cmd" =>
        LET group == last.m.CmdInfo.Apps # <<>> \/ last.m.CmdInfo.AppGroupId # ""
        IN /\ last.result.hasResult = ~group
           /\ last.result.hasResult => last.result.Results = <<>>

\* C18: after a delete of one application, whichever sub-step failed, on
\* either platform, the other sub-steps have run (directory, started service
\* and unit are gone unless theirs is the step that failed) and the registry
\* holds no record of the application.
C18_DeleteBestEffort ==
    (/\ LastIs("deploy", "appDelete")
     /\ last.m.CmdInfo.AppGroupId = ""
     /\ last.m.CmdInfo.AppName # "")
        => LET appName == last.m.CmdInfo.AppName
               appId == last.m.CmdInfo.AppId
               failed == last.env.delStage
           IN /\ ~HasRecord(appInfoFile, appName)
              /\ failed # "rmdir" => <<appName, appId>> \notin appDirs
              /\ failed # "stop" => appName \notin svcEnabled
              /\ failed # "remove" => appName \notin svcUnits

\* C20: when the publication of a command's ack or result fails, the process
\* keeps running and the disk is what the command leaves when every
\* publication succeeds.
C20_PublishFailureNonFatal ==
    (last.op \in {"cmd", "pubfail"} /\ last.env.pubFail # "none") =>
        /\ procUp
        /\ Disk = Control(last.pre, last.m, archType,
                          [last.env EXCEPT !.pubFail = "none"]).d


\* C16: at every instant the registry file, if present, holds a complete
\* record list, and the process checker never reads an empty or truncated
\* file while an add or a remove is in progress.
C16_RegistryAlwaysWhole ==
    /\ regFile.exists => regFile.whole
    /\ regSeen # "torn"

\* The handlers that are between dispatch and return.
RegActive == {i \in DOMAIN regOps : regOps[i].pc \in RegRunning}
\* The add of regOps[i] wrote its record and no later remove of the name
\* wrote after it.
RegAdded(i) ==
    /\ regOps[i].kind = "add"
    /\ regOps[i].pc = "done"
    /\ \A j \in DOMAIN regOps :
          (j > i /\ regOps[j].kind = "del" /\ regOps[j].name = regOps[i].name)
             => regOps[j].pc \in {"wait", "ret", "dropped"}

C19_RegistryFailureNonFatal ==
    \A i \in DOMAIN regOps : regOps[i].pc # "exit"


\* The last command was a single-app deploy that reached CreateVenv: the
\* artifact was fetched, the name was not registered, the runtime is python
\* and the environment it names did not exist.
DeployCreatesVenv ==
    /\ LastSingleDeploy
    /\ CheckDeploy(last.m.SubCmdType, last.m.CmdInfo)
    /\ last.env.stage # "download"
    /\ LET art == Artifact(last.m.CmdInfo.FileUrl)
       IN /\ ~(archType = "linux" /\ art.old)
          /\ ~CheckExistApp(last.pre, last.m.CmdInfo.AppName)
          /\ IsPython(art)
          /\ ~VenvExists(last.pre, ResolveVenv(last.m.CmdInfo.VenvName, art))

\* C21: when the creation of the virtual environment fails, in a venvCreate
\* command or inside a deploy, the result carries the error with status 400,
\* no service is registered or started, no record is written, and the
\* environment directory does not exist after the command.
C21_VenvFailureCleansUp ==
    /\ (/\ LastIs("virtualEnv", "venvCreate")
        /\ CheckVenv(last.m.SubCmdType, last.m.CmdInfo)
        /\ last.env.stage \in {"venvCreate", "venvPkg"})
       => /\ last.result.Succeed = 0
          /\ last.result.StatusCode = StatusBadRequest
          /\ last.m.CmdInfo.VenvName \notin venvDirs
          /\ svcUnits = last.pre.units
          /\ appInfoFile = last.pre.appInfo
    /\ (DeployCreatesVenv /\ last.env.stage \in {"venvCreate", "venvPkg"})
       => /\ last.result.Succeed = 0
          /\ last.result.StatusCode = StatusBadRequest
          /\ svcUnits \subseteq last.pre.units
          /\ svcEnabled \subseteq last.pre.enabled
          /\ ~HasRecord(appInfoFile, last.m.CmdInfo.AppName)
          /\ ResolveVenv(last.m.CmdInfo.VenvName,
                         Artifact(last.m.CmdInfo.FileUrl)) \notin venvDirs


\* The last command was a single-app deploy in which Deploy wrote the record
\* of a name that was not registered and then failed with status 400.
DeployFailedRegistered ==
    /\ LastSingleDeploy
    /\ CheckDeploy(last.m.SubCmdType, last.m.CmdInfo)
    /\ ~CheckExistApp(last.pre, last.m.CmdInfo.AppName)
    /\ LET dep == Deploy(last.pre, last.m.CmdInfo, archType, last.env.stage)
       IN /\ dep.statusCode = StatusBadRequest
          /\ CheckExistApp(dep.d, last.m.CmdInfo.AppName)

\* C22: when registration, start, enable or process-id resolution fails
\* after the record was written, the result is a 400 and the dispatcher
\* deletes the record, the application directory and the service unit: the
\* registry holds what it held before the command.
C22_RollbackRestoresRegistry ==
    DeployFailedRegistered =>
       /\ last.result.Succeed = 0
       /\ last.result.StatusCode = StatusBadRequest
       /\ appInfoFile.list = last.pre.appInfo.list
       /\ <<last.m.CmdInfo.AppName, last.m.CmdInfo.AppId>> \notin appDirs
       /\ last.m.CmdInfo.AppName \notin svcUnits


\* C23: when the artifact download of a single-app deploy fails, the result
\* is a 400 and the registry, the service units and the application
\* directories are what they were before the command.
C23_DownloadFailureNoPartialState ==
    (/\ LastSingleDeploy
     /\ CheckDeploy(last.m.SubCmdType, last.m.CmdInfo)
     /\ last.env.stage = "download")
    => /\ last.result.Succeed = 0
       /\ last.result.StatusCode = StatusBadRequest
       /\ appInfoFile.list = last.pre.appInfo.list
       /\ svcUnits = last.pre.units
       /\ appDirs = last.pre.dirs


\* C24: after a single-app deploy that reports success the registry holds a
\* record with the deployed appName and appId, and after a delete command
\* that reports success no record of its name is left.
C24_RecordFollowsOutcome ==
    /\ (/\ LastSingleDeploy
        /\ CheckDeploy(last.m.SubCmdType, last.m.CmdInfo)
        /\ last.result.Succeed = 1)
       => \E r \in Records(appInfoFile) :
             /\ r.AppName = last.m.CmdInfo.AppName
             /\ r.AppId = last.m.CmdInfo.AppId
    /\ (/\ LastIs("deploy", "appDelete")
        /\ CheckDeploy(last.m.SubCmdType, last.m.CmdInfo)
        /\ last.m.CmdInfo.AppGroupId = ""
        /\ last.result.Succeed = 1)
       => ~HasRecord(appInfoFile, last.m.CmdInfo.AppName)


C26_UndecodableRejected ==
    (last.op = "cmd" /\ last.env.bad # "none")
    => /\ last.sent
       /\ last.result.Succeed = 0
       /\ last.result.StatusCode = StatusBadRequest
       /\ Disk = last.pre


\* C27: keys of the patch that the target does not hold, at the top level
\* and inside a nested map, are ignored: after a successful patch the
\* document has the keys it had, at both levels, and the value of every key
\* the patch does not carry is unchanged.
C27_AbsentKeysIgnored ==
    (/\ Patched
     /\ patchLast.configCmd.FileName # ""
     /\ ~patchLast.panic
     /\ patchLast.err = NoErr)
    => LET pre == patchLast.pre.doc
           post == jsonFile.doc
           data == patchLast.configCmd.Parameter
       IN /\ DOMAIN post = DOMAIN pre
          /\ \A k \in DOMAIN pre :
                /\ k \notin DOMAIN data => post[k] = pre[k]
                /\ pre[k].kind = "map" =>
                      /\ post[k].kind = "map"
                      /\ DOMAIN post[k].map = DOMAIN pre[k].map
                      /\ \A j \in DOMAIN pre[k].map :
                            (k \in DOMAIN data /\ j \notin DOMAIN data[k].map)
                               => post[k].map[j] = pre[k].map[j]

\* A patch with a top-level key and a nested key the target does not hold
\* went through and changed the nested value both sides hold.
C27_Witness ==
    /\ Patched
    /\ patchLast.err = NoErr
    /\ "z" \in DOMAIN patchLast.configCmd.Parameter
    /\ "z" \notin DOMAIN jsonFile.doc
    /\ "n" \in DOMAIN patchLast.pre.doc
    /\ "n" \in DOMAIN patchLast.configCmd.Parameter
    /\ patchLast.pre.doc["n"].kind = "map"
    /\ "q" \in DOMAIN patchLast.configCmd.Parameter["n"].map
    /\ DOMAIN jsonFile.doc["n"].map = {"k"}
    /\ jsonFile.doc["n"].map["k"] = JStr("s")
    /\ patchLast.pre.doc["n"].map["k"] # JStr("s")


\* C28: a bash command whose command string is exactly "reboot" leaves the
\* marker "rebooting" with the command's requestId in the device
\* configuration; every other command leaves the marker and the stored
\* requestId as they were.
C28_RebootMarkerPersisted ==
    /\ (last.op = "cmd" /\ last.m.CmdType = "bash" /\ last.m.CmdInfo.Cmd = "reboot")
       => configFile = [Reboot |-> "rebooting", RequestId |-> last.m.RequestId]
    /\ (last.op = "cmd" /\ ~(last.m.CmdType = "bash" /\ last.m.CmdInfo.Cmd = "reboot"))
       => configFile = last.pre.config


\* C29: a delete naming a group removes exactly the records of that group
\* (a lookup of the group finds nothing afterwards), leaves every other
\* record as it was and reports one result per removed application; with no
\* record in the group it fails with 400 and the registry is unchanged.
C29_GroupDeleteExact ==
    (/\ last.op \in {"cmd", "panic"}
     /\ last.m.CmdType = "deploy"
     /\ last.m.SubCmdType = "appDelete"
     /\ last.m.CmdInfo.AppGroupId # "") =>
       LET g == last.m.CmdInfo.AppGroupId
           inGroup == GetAppsFromGroup(last.pre, g)
           others == {r \in Records(last.pre.appInfo) : r.AppGroupId # g}
       IN IF inGroup = <<>>
          THEN /\ last.op = "cmd"
               /\ last.result.Succeed = 0
               /\ last.result.StatusCode = StatusBadRequest
               /\ appInfoFile = last.pre.appInfo
          ELSE /\ last.op = "cmd"
               /\ last.result.Succeed = 1
               /\ GetAppsFromGroup(Disk, g) = <<>>
               /\ Records(appInfoFile) = others
               /\ Len(last.result.Results) = Len(inGroup)


\* C30: once the environment step of a create or update has passed, the
\* requirements file holds exactly the lines of the package list that are
\* neither blank (empty or whitespace only) nor comments (first non-space
\* character #), in their order, and the call has not crashed on any line.
\* An update is taken with a list that has no uninstall line (first
\* non-space character -), which an update removes instead of writing.
C30_RequirementsNormalized ==
    LET pkgString == Split(pkgFile.Requirement, "\n")
        first(l) == SelectSeq(l, LAMBDA c : c # " ")[1]
        blank(l) == \A i \in 1..Len(l) : l[i] \in {" ", "\t"}
    IN (/\ pkgFile.op # "none"
        /\ pkgFile.stage # "venvCreate"
        /\ pkgFile.op = "venvUpdate" =>
              \A i \in 1..Len(pkgString) :
                 blank(pkgString[i]) \/ first(pkgString[i]) # "-")
       => /\ ~pkgFile.panic
          /\ pkgFile.exists
          /\ pkgFile.lines =
               SelectSeq(pkgString, LAMBDA l : ~blank(l) /\ first(l) # "#")


\* C31: a single-app deploy rejected because a record of its appName exists
\* reports 400 and leaves the existing application as it was: its records are
\* still in the registry, its service unit still installed and enabled.
C31_RejectedDeployKeepsExisting ==
    (/\ LastSingleDeploy
     /\ CheckDeploy(last.m.SubCmdType, last.m.CmdInfo)
     /\ last.env.stage = "none"
     /\ CheckExistApp(last.pre, last.m.CmdInfo.AppName)
     /\ Deploy(last.pre, last.m.CmdInfo, archType, "none").statusCode
           = StatusBadRequest)
    => /\ last.result.Succeed = 0
       /\ last.result.StatusCode = StatusBadRequest
       /\ appInfoFile.list = last.pre.appInfo.list
       /\ (last.m.CmdInfo.AppName \in last.pre.units
             => last.m.CmdInfo.AppName \in svcUnits)
       /\ (last.m.CmdInfo.AppName \in last.pre.enabled
             => last.m.CmdInfo.AppName \in svcEnabled)


\* C32: after a group deploy that failed and was rolled back, every record
\* the registry held before the command is still in it, whatever the
\* command's appGroupId.
C32_GroupRollbackKeepsOthers ==
    (/\ LastGroupDeploy
     /\ CheckDeploy(last.m.SubCmdType, last.m.CmdInfo)
     /\ InferenceDeploy(last.pre, last.m.CmdInfo, last.env.failIdx,
                        last.env.stage).statusCode = StatusBadRequest)
    => \A i \in 1..Len(last.pre.appInfo.list) :
          \E j \in 1..Len(appInfoFile.list) :
             appInfoFile.list[j] = last.pre.appInfo.list[i]


\* C33: a command whose ack is on the broker has exactly one result with its
\* requestId once its handler is over, unless it is the bash command reboot;
\* that one has exactly one result once the process has started again.
C33_AckThenOneResult ==
    /\ (/\ last.op \in {"cmd", "panic", "pubfail"}
        /\ Pubs("ack", last.m.RequestId) # {}
        /\ ~(last.m.CmdType = "bash" /\ last.m.CmdInfo.Cmd = "reboot"))
       => Cardinality(Pubs("result", last.m.RequestId)) = 1
    /\ \A rr \in rebootReqs :
          (starts > rr[2] /\ Pubs("ack", rr[1]) # {})
             => Cardinality(Pubs("result", rr[1])) = 1


\* C34: the result Control returns for a command has succeed 1 exactly when
\* its statusCode is 200.
C34_StatusConsistent ==
    last.op = "cmd" => (last.result.Succeed = 1 <=> last.result.StatusCode = StatusOK)


\* C35: Control returns a result for every command that passes the format
\* check of its type, a handler never panics on one; and the result of a
\* deploy or virtualEnv command whose sub-command has no branch does not
\* report success.
C35_ValidatedNeverCrashes ==
    LET m == last.m
        valid == CASE m.CmdType = "bash" -> CheckBash(m.CmdInfo)
                   [] m.CmdType = "systemd" -> CheckSystemd(m.CmdInfo)
                   [] m.CmdType = "virtualEnv" -> CheckVenv(m.SubCmdType, m.CmdInfo)
                   [] m.CmdType = "deploy" -> CheckDeploy(m.SubCmdType, m.CmdInfo)
                   [] m.CmdType = "docker" -> CheckDocker(m.SubCmdType, m.CmdInfo)
                   [] OTHER -> TRUE
    IN /\ (last.op \in {"cmd", "panic"} /\ valid) => last.op = "cmd"
       /\ (/\ last.op = "cmd"
           /\ \/ (/\ m.CmdType = "deploy"
                  /\ m.SubCmdType \notin {"appDeploy", "appDelete", "appStart",
                                          "appStop"})
              \/ (/\ m.CmdType = "virtualEnv"
                  /\ m.SubCmdType \notin {"venvCreate", "venvDelete", "venvUpdate"}))
          => last.result.Succeed = 0


\* C36: when the shell command of a bash reboot fails, a failure result with
\* the command's requestId is on the broker after the handler and the marker
\* is not left at "rebooting" (no later start answers it with a success).
C36_FailedRebootReported ==
    (/\ last.op = "cmd"
     /\ last.m.CmdType = "bash"
     /\ last.m.CmdInfo.Cmd = "reboot"
     /\ last.env.bashFail)
    => /\ \E i \in Pubs("result", last.m.RequestId) : published[i].Succeed = 0
       /\ configFile.Reboot # "rebooting"


\* C37: SaveAppInfo hands WriteFile the record list the file held with the
\* new record appended at the end, a failed read of the file included.
C37_AddPreservesRecords ==
    \A i \in DOMAIN regOps :
       (regOps[i].kind = "add" /\ regOps[i].pc = "trunc")
          => regOps[i].buf = Append(regFile.list, regOps[i].name)


\* C38: a model update runs stop, the model file key, download, patch, start
\* in this order; it starts the application only after download and patch
\* went through; and when it fails after the stop (no model file key or one
\* the parameter map does not resolve, download, patch or config read
\* failure) the application is stopped and the command returns an error.
C38_UpdateStopsThenRestarts ==
    modelRun.op = "update" =>
       LET order == <<"stop", "key", "download", "patch", "start">>
           n == Len(modelRun.steps)
           noFile == \/ modelRun.ModelFileKey = <<>>
                     \/ ModelFileName(Split(modelRun.ModelFileKey, "."),
                                      modelRun.Parameter)
       IN /\ n <= Len(order) /\ modelRun.steps = SubSeq(order, 1, n)
          /\ (n = Len(order)) => (~noFile /\ modelRun.stage \in {"none", "start", "pid"})
          /\ (modelRun.stage # "stop"
                /\ (noFile \/ modelRun.stage \in {"download", "patch", "config"}))
             => /\ ~modelRun.running
                /\ ~modelRun.panic
                /\ modelRun.err
                /\ modelRun.statusCode = StatusBadRequest


\* C39: JsonChange ends with a success or an error result whatever kinds of
\* value the patch and the target hold, a null among them: it never panics,
\* it returns 200 without an error or 400 with one, and a call with no
\* parameter map or no file name returns success and leaves the file as it
\* was.
C39_PatchNeverCrashes ==
    patchLast.called =>
        /\ ~patchLast.panic
        /\ \/ patchLast.err = NoErr /\ patchLast.statusCode = StatusOK
           \/ patchLast.err # NoErr /\ patchLast.statusCode = StatusBadRequest
        /\ (~patchLast.configCmd.hasParameter \/ patchLast.configCmd.FileName = "")
              => /\ patchLast.err = NoErr
                 /\ patchLast.statusCode = StatusOK
                 /\ jsonFile = patchLast.pre

====
